---- MODULE Spec2Model ----
(***************************************************************************)
(* A model of the arXiv/ADS digest scripts: src/topic_digest.py (topic     *)
(* digest: priority-author detection, relevance scoring, merge, sort and   *)
(* the main run) and src/arxiv_digest.py (affiliation digest).             *)
(*                                                                         *)
(* Conventions.                                                            *)
(*  - A Python str whose characters matter (titles, abstracts, keywords,   *)
(*    author names, dates) is a sequence of one-character strings.  A str  *)
(*    that the code only compares for equality (bibcode, ORCID) is a TLA+  *)
(*    string.                                                              *)
(*  - A dictionary field that may be missing or None is <<>> (None) or     *)
(*    <<v>> (the value v); the code never tells a missing key from None.   *)
(*  - Python positions are 0-based, sequence positions here are 1-based.   *)
(***************************************************************************)
EXTENDS Integers, Sequences, FiniteSets, TLC

VARIABLES
  \* which literals the module globals of src/topic_digest.py were loaded from:
  \* [orcids, topic, high], each the name of a literal (fixed during a run)
  config,
  \* a call of one function of the scripts: its name, argument and result
  fn, arg, ret,
  \* one run of main() of src/topic_digest.py
  pc,               \* where main is: "idle", "main", "topic", "priority", "email", "done", "raised"
  environ,          \* os.environ: ADS_API_KEY, DAYS_BACK, SENDER_EMAIL (None when unset)
  issued,           \* the calls of query_ads so far: which query, and what ADS answered
  topic_papers,     \* main's topic_papers
  priority_papers,  \* query_priority_papers' out
  oid_i,            \* position of query_priority_papers' loop in PRIORITY_ORCIDS
  main_papers,      \* main's papers, None before the merge
  email,            \* what create_email_content returned, None before
  delivered,        \* "no", "sent" (send_email) or "printed" (stdout)
  log,              \* the lines printed, in order
  raised            \* the exception that ended main, None when there is none

globals == <<config>>
call == <<fn, arg, ret>>
run == <<pc, environ, issued, topic_papers, priority_papers, oid_i, main_papers, email, delivered, log, raised>>
vars == <<globals, call, run>>

-----------------------------------------------------------------------------
(* Python values *)

None == <<>>
Some(v) == <<v>>

Range(s) == {s[i] : i \in 1..Len(s)}

\* main is not running
RunIdle ==
  /\ pc = "idle"
  /\ environ = None
  /\ issued = <<>>
  /\ topic_papers = <<>>
  /\ priority_papers = <<>>
  /\ oid_i = 0
  /\ main_papers = None
  /\ email = None
  /\ delivered = "no"
  /\ log = <<>>
  /\ raised = None

\* dict.get(key, default) or default, for a value that is falsy when empty
OrElse(opt, default) ==
  IF opt = None THEN default
  ELSE IF opt[1] = <<>> THEN default ELSE opt[1]

\* "is not None" in place of truthiness: "" passes
Truthy_not_none(opt) == opt # None

\* the same for a TLA+ string value (bibcode): None and "" are falsy
Truthy(opt) == opt # None /\ opt[1] # ""

LowerMap ==
  ("A" :> "a") @@ ("B" :> "b") @@ ("C" :> "c") @@ ("D" :> "d") @@ ("E" :> "e") @@
  ("F" :> "f") @@ ("G" :> "g") @@ ("H" :> "h") @@ ("I" :> "i") @@ ("J" :> "j") @@
  ("K" :> "k") @@ ("L" :> "l") @@ ("M" :> "m") @@ ("N" :> "n") @@ ("O" :> "o") @@
  ("P" :> "p") @@ ("Q" :> "q") @@ ("R" :> "r") @@ ("S" :> "s") @@ ("T" :> "t") @@
  ("U" :> "u") @@ ("V" :> "v") @@ ("W" :> "w") @@ ("X" :> "x") @@ ("Y" :> "y") @@
  ("Z" :> "z")

\* str.lower()
lower(s) ==
  [i \in 1..Len(s) |-> IF s[i] \in DOMAIN LowerMap THEN LowerMap[s[i]] ELSE s[i]] \o <<>>

\* k in t, for two str
Contains(k, t) ==
  \/ k = <<>>
  \/ \E i \in 0..(Len(t) - Len(k)) :
       t[i + 1] = k[1] /\ \A j \in 2..Len(k) : t[i + j] = k[j]

Whitespace == {" ", "\t", "\n", "\r"}

\* str.strip()
strip(s) ==
  LET inner == {i \in 1..Len(s) : s[i] \notin Whitespace}
  IN IF inner = {} THEN <<>>
     ELSE SubSeq(s, CHOOSE i \in inner : \A j \in inner : i <= j,
                    CHOOSE i \in inner : \A j \in inner : j <= i)

-----------------------------------------------------------------------------
(* Configuration literals *)

PRIORITY_ORCIDS_SRC ==
  << "0009-0007-0488-5685", "0000-0001-7493-7419",
     "0009-0001-1360-8547", "0000-0001-7246-5438" >>

TOPIC_KEYWORDS_SRC ==
  << <<"o","p","e","n"," ","c","l","u","s","t","e","r">>,
     <<"M","E","S","A">>,
     <<"N","G","C"," ","1","8","8">>,
     <<"m"," ","d","w","a","r","f">>,
     <<"g","y","r","o","c","h","r","o","n","o","l","o","g","y">>,
     <<"s","t","e","l","l","a","r"," ","r","o","t","a","t","i","o","n">>,
     <<"e","x","o","p","l","a","n","e","t"," ","a","g","e">>,
     <<"p","l","a","n","e","t","a","r","y"," ","e","n","g","u","l","f","m","e","n","t">>,
     <<"f","r","e","e","-","f","l","o","a","t","i","n","g"," ","p","l","a","n","e","t">>,
     <<"p","l","a","n","e","t"," ","e","n","g","u","l","f","m","e","n","t">>,
     <<"e","n","g","u","l","f","m","e","n","t">>,
     <<"y","o","u","n","g"," ","s","t","a","r","s">>,
     <<"T","E","S","S"," ","p","h","o","t","o","m","e","t","r","y">>,
     <<"s","t","e","l","l","a","r"," ","a","g","e">>,
     <<"r","o","t","a","t","i","o","n","a","l"," ","e","v","o","l","u","t","i","o","n">>,
     <<"s","t","a","r","s","p","o","t">>,
     <<"c","h","r","o","m","o","s","p","h","e","r","i","c"," ","a","c","t","i","v","i","t","y">>,
     <<"U","r","s","a"," ","M","a","j","o","r">>,
     <<"H","y","a","d","e","s">>,
     <<"U","p","p","e","r"," ","S","c","o">>,
     <<"g","y","r","o","c","h","r","o","n","o","l","o","g","i","c","a","l">>,
     <<"a","g","e"," ","e","s","t","i","m","a","t","e">>,
     <<"a","g","e"," ","c","o","n","s","t","r","a","i","n","t">>,
     <<"l","i","t","h","i","u","m"," ","d","e","p","l","e","t","i","o","n">>,
     <<"l","i","t","h","i","u","m"," ","a","b","u","n","d","a","n","c","e">>,
     <<"l","i","t","h","i","u","m">>,
     <<"s","t","e","l","l","a","r"," ","p","o","l","l","u","t","i","o","n">>,
     <<"c","h","e","m","i","c","a","l"," ","a","b","u","n","d","a","n","c","e">>,
     <<"c","o","n","v","e","c","t","i","v","e"," ","z","o","n","e">>,
     <<"c","o","n","v","e","c","t","i","v","e"," ","e","n","v","e","l","o","p","e">>,
     <<"t","r","a","n","s","i","t","i","n","g"," ","p","l","a","n","e","t">>,
     <<"t","r","a","n","s","i","t","i","n","g"," ","e","x","o","p","l","a","n","e","t">>,
     <<"h","i","g","h","-","p","r","e","c","i","s","i","o","n"," ","r","a","d","i","a","l"," ","v","e","l","o","c","i","t","y">>,
     <<"a","s","t","e","r","o","s","e","i","s","m","o","l","o","g","y">>,
     <<"N","a","n","c","y"," ","G","r","a","c","e"," ","R","o","m","a","n"," ","S","p","a","c","e"," ","T","e","l","e","s","c","o","p","e">>,
     <<"R","o","m","a","n"," ","S","p","a","c","e"," ","T","e","l","e","s","c","o","p","e">>,
     <<"R","o","m","a","n"," ","w","i","d","e"," ","f","i","e","l","d"," ","i","n","s","t","r","u","m","e","n","t">>,
     <<"R","o","m","a","n"," ","p","h","o","t","o","m","e","t","r","y">>,
     <<"d","e","b","r","i","s"," ","d","i","s","k">>,
     <<"t","r","a","n","s","i","t"," ","s","u","r","v","e","y">>,
     <<"t","r","a","n","s","i","t"," ","s","e","a","r","c","h">>,
     <<"t","r","a","n","s","i","t"," ","i","n","j","e","c","t","i","o","n","-","r","e","c","o","v","e","r","y">>,
     <<"c","o","m","p","l","e","t","e","n","e","s","s">>,
     <<"p","l","a","n","e","t"," ","v","a","l","i","d","a","t","i","o","n">>,
     <<"j","o","i","n","t"," ","t","r","a","n","s","i","t"," ","R","V"," ","f","i","t">>,
     <<"r","a","d","i","a","l"," ","v","e","l","o","c","i","t","y"," ","f","o","l","l","o","w","-","u","p">>,
     <<"R","V"," ","m","a","s","s">>,
     <<"m","a","s","s","-","r","a","d","i","u","s"," ","r","e","l","a","t","i","o","n">>,
     <<"o","c","c","u","r","r","e","n","c","e"," ","r","a","t","e">>,
     <<"p","l","a","n","e","t"," ","d","e","m","o","g","r","a","p","h","i","c","s">>,
     <<"m","u","l","t","i","-","p","l","a","n","e","t"," ","s","y","s","t","e","m">>,
     <<"T","T","V">>,
     <<"R","o","s","s","i","t","e","r","-","M","c","L","a","u","g","h","l","i","n">>,
     <<"s","p","i","n","-","o","r","b","i","t">>,
     <<"o","b","l","i","q","u","i","t","y">>,
     <<"t","r","a","n","s","m","i","s","s","i","o","n"," ","s","p","e","c","t","r","o","s","c","o","p","y">>,
     <<"e","m","i","s","s","i","o","n"," ","s","p","e","c","t","r","o","s","c","o","p","y">>,
     <<"a","t","m","o","s","p","h","e","r","i","c"," ","r","e","t","r","i","e","v","a","l">>,
     <<"c","l","o","u","d","s"," ","a","n","d"," ","h","a","z","e","s">>,
     <<"m","e","t","a","l","l","i","c","i","t","y">>,
     <<"e","s","c","a","p","e">>,
     <<"p","h","o","t","o","e","v","a","p","o","r","a","t","i","o","n">>,
     <<"c","o","r","e","-","p","o","w","e","r","e","d"," ","m","a","s","s"," ","l","o","s","s">> >>

HIGH_VALUE_KEYWORDS_SRC ==
  << <<"h","y","d","r","o","d","y","n","a","m","i","c"," ","s","i","m","u","l","a","t","i","o","n">>,
     <<"e","x","o","p","l","a","n","e","t"," ","d","i","s","c","o","v","e","r","y">>,
     <<"c","o","m","m","o","n"," ","e","n","v","e","l","o","p","e">>,
     <<"g","y","r","o","c","h","r","o","n","o","l","o","g","y">>,
     <<"p","l","a","n","e","t","a","r","y"," ","e","n","g","u","l","f","m","e","n","t">>,
     <<"p","l","a","n","e","t"," ","e","n","g","u","l","f","m","e","n","t">>,
     <<"e","n","g","u","l","f","m","e","n","t">>,
     <<"l","i","t","h","i","u","m"," ","d","e","p","l","e","t","i","o","n">>,
     <<"l","i","t","h","i","u","m"," ","a","b","u","n","d","a","n","c","e">>,
     <<"s","t","e","l","l","a","r"," ","a","g","e">>,
     <<"y","o","u","n","g"," ","p","l","a","n","e","t">>,
     <<"s","t","e","l","l","a","r"," ","p","o","l","l","u","t","i","o","n">>,
     <<"e","x","o","p","l","a","n","e","t"," ","y","i","e","l","d">> >>

-----------------------------------------------------------------------------
(* Helpers: keyword hygiene *)

\* The loop of unique_preserve keeps seq[i] exactly when no earlier element
\* equals it; the result lists the kept elements in their order in seq.
unique_preserve(seq) ==
  LET kept == {i \in 1..Len(seq) : \A j \in 1..(i - 1) : seq[j] # seq[i]}
      nth(n) == CHOOSE i \in kept : Cardinality({j \in kept : j < i}) = n - 1
  IN [n \in 1..Cardinality(kept) |-> seq[nth(n)]]

\* The literals a configuration may name: those of the source, none, the
\* source's in reverse order, lists with keywords that differ only in letter
\* case, and short lists in each of their orders.
Reverse(seq) == [i \in 1..Len(seq) |-> seq[Len(seq) + 1 - i]]

\* seq in the order order: the order[i]-th element comes i-th
Reorder(seq, order) == [i \in 1..Len(order) |-> seq[order[i]]]

HIGH_CASE == << <<"L","i","t","h","i","u","m">>, <<"l","i","t","h","i","u","m">> >>
TOPIC_CASE == << <<"M","E","S","A">>, <<"m","e","s","a">>, <<"L","I","T","H","I","U","M">> >>
HIGH_SHORT == << <<"l","i","t","h","i","u","m">>, <<"S","t","e","l","l","a","r"," ","A","g","e">>, <<"g","y","r","o","c","h","r","o","n","o","l","o","g","y">> >>
TOPIC_SHORT == << <<"M","E","S","A">>, <<"l","i","t","h","i","u","m">> >>

OrcidLiterals == ("source" :> PRIORITY_ORCIDS_SRC) @@ ("empty" :> <<>>)

HighLiterals ==
  ("source" :> HIGH_VALUE_KEYWORDS_SRC) @@
  ("empty" :> <<>>) @@
  ("reversed" :> Reverse(HIGH_VALUE_KEYWORDS_SRC)) @@
  ("case" :> HIGH_CASE) @@
  ("h123" :> Reorder(HIGH_SHORT, <<1, 2, 3>>)) @@
  ("h132" :> Reorder(HIGH_SHORT, <<1, 3, 2>>)) @@
  ("h213" :> Reorder(HIGH_SHORT, <<2, 1, 3>>)) @@
  ("h231" :> Reorder(HIGH_SHORT, <<2, 3, 1>>)) @@
  ("h312" :> Reorder(HIGH_SHORT, <<3, 1, 2>>)) @@
  ("h321" :> Reorder(HIGH_SHORT, <<3, 2, 1>>))

TopicLiterals ==
  ("source" :> TOPIC_KEYWORDS_SRC) @@
  ("empty" :> <<>>) @@
  ("reversed" :> Reverse(TOPIC_KEYWORDS_SRC)) @@
  ("case" :> TOPIC_CASE) @@
  ("t12" :> Reorder(TOPIC_SHORT, <<1, 2>>)) @@
  ("t21" :> Reorder(TOPIC_SHORT, <<2, 1>>))

Configs == [orcids : DOMAIN OrcidLiterals, topic : DOMAIN TopicLiterals, high : DOMAIN HighLiterals]

SourceConfig == [orcids |-> "source", topic |-> "source", high |-> "source"]

\* TOPIC_KEYWORDS = unique_preserve(TOPIC_KEYWORDS), for each literal
TopicLoaded ==
  ("source" :> unique_preserve(TopicLiterals["source"])) @@
  ("empty" :> unique_preserve(TopicLiterals["empty"])) @@
  ("reversed" :> unique_preserve(TopicLiterals["reversed"])) @@
  ("case" :> unique_preserve(TopicLiterals["case"])) @@
  ("t12" :> unique_preserve(TopicLiterals["t12"])) @@
  ("t21" :> unique_preserve(TopicLiterals["t21"]))

\* HIGH_VALUE_KEYWORDS = unique_preserve(HIGH_VALUE_KEYWORDS), for each literal
HighLoaded ==
  ("source" :> unique_preserve(HighLiterals["source"])) @@
  ("empty" :> unique_preserve(HighLiterals["empty"])) @@
  ("reversed" :> unique_preserve(HighLiterals["reversed"])) @@
  ("case" :> unique_preserve(HighLiterals["case"])) @@
  ("h123" :> unique_preserve(HighLiterals["h123"])) @@
  ("h132" :> unique_preserve(HighLiterals["h132"])) @@
  ("h213" :> unique_preserve(HighLiterals["h213"])) @@
  ("h231" :> unique_preserve(HighLiterals["h231"])) @@
  ("h312" :> unique_preserve(HighLiterals["h312"])) @@
  ("h321" :> unique_preserve(HighLiterals["h321"]))

LowerAll(seq) == [i \in 1..Len(seq) |-> lower(seq[i])] \o <<>>

\* [k.lower() for k in TOPIC_KEYWORDS], for each literal
TopicLowerLoaded ==
  ("source" :> LowerAll(TopicLoaded["source"])) @@
  ("empty" :> LowerAll(TopicLoaded["empty"])) @@
  ("reversed" :> LowerAll(TopicLoaded["reversed"])) @@
  ("case" :> LowerAll(TopicLoaded["case"])) @@
  ("t12" :> LowerAll(TopicLoaded["t12"])) @@
  ("t21" :> LowerAll(TopicLoaded["t21"]))

\* {k.lower() for k in HIGH_VALUE_KEYWORDS}, for each literal
HighLowerLoaded ==
  ("source" :> Range(LowerAll(HighLoaded["source"]))) @@
  ("empty" :> Range(LowerAll(HighLoaded["empty"]))) @@
  ("reversed" :> Range(LowerAll(HighLoaded["reversed"]))) @@
  ("case" :> Range(LowerAll(HighLoaded["case"]))) @@
  ("h123" :> Range(LowerAll(HighLoaded["h123"]))) @@
  ("h132" :> Range(LowerAll(HighLoaded["h132"]))) @@
  ("h213" :> Range(LowerAll(HighLoaded["h213"]))) @@
  ("h231" :> Range(LowerAll(HighLoaded["h231"]))) @@
  ("h312" :> Range(LowerAll(HighLoaded["h312"]))) @@
  ("h321" :> Range(LowerAll(HighLoaded["h321"])))

\* the module globals, as loaded
PRIORITY_ORCIDS == OrcidLiterals[config.orcids]
TOPIC_KEYWORDS == TopicLoaded[config.topic]
HIGH_VALUE_KEYWORDS == HighLoaded[config.high]
HIGH_VALUE_LOWER == HighLowerLoaded[config.high]
TOPIC_LOWER == TopicLowerLoaded[config.topic]

-----------------------------------------------------------------------------
(* Paper utilities *)

\* the guard left out: authors[i] is read at every matching position
InBounds_unchecked(i, authors) == TRUE

\* the guard of authors[i]: position i (1-based here) is an index of authors
InBounds(i, authors) == i <= Len(authors)

\* the test "name not in priority_authors" left out
AddName_always(names, name) == Append(names, name)

\* if name not in priority_authors: priority_authors.append(name)
AddName(names, name) ==
  IF name \in Range(names) THEN names ELSE Append(names, name)

\* only orcid_pub is read
get_paper_orcids_pub_only(paper) ==
  {o \in Range(OrElse(paper.orcid_pub, <<>>)) : o # "" /\ o # "-"}

OrcidFields == <<"orcid_pub", "orcid_user", "orcid_other">>

get_paper_orcids(paper) ==
  UNION { { o \in Range(OrElse(paper[OrcidFields[f]], <<>>)) : o # "" /\ o # "-" }
          : f \in 1..Len(OrcidFields) }

has_priority_author(paper) ==
  (get_paper_orcids(paper) \cap Range(PRIORITY_ORCIDS)) # {}


\* One field's loop of get_priority_authors. acc.raised records an IndexError
\* of authors[i], which ends the call.
RECURSIVE priority_authors_in(_, _, _, _)
priority_authors_in(authors, orcids, i, acc) ==
  IF acc.raised \/ i > Len(orcids) THEN acc
  ELSE IF orcids[i] \in Range(PRIORITY_ORCIDS) /\ InBounds(i, authors)
       THEN IF i > Len(authors)
            THEN [acc EXCEPT !.raised = TRUE]
            ELSE priority_authors_in(authors, orcids, i + 1,
                   [acc EXCEPT !.names = AddName(@, authors[i])])
       ELSE priority_authors_in(authors, orcids, i + 1, acc)

RECURSIVE priority_authors_fields(_, _, _)
priority_authors_fields(paper, f, acc) ==
  IF f > Len(OrcidFields) THEN acc
  ELSE priority_authors_fields(paper, f + 1,
         priority_authors_in(OrElse(paper.author, <<>>),
                             OrElse(paper[OrcidFields[f]], <<>>), 1, acc))

\* [raised |-> an IndexError escaped, names |-> the list returned otherwise]
get_priority_authors(paper) ==
  priority_authors_fields(paper, 1, [raised |-> FALSE, names |-> <<>>])

-----------------------------------------------------------------------------
(* Publication dates *)

DigitValue ==
  ("0" :> 0) @@ ("1" :> 1) @@ ("2" :> 2) @@ ("3" :> 3) @@ ("4" :> 4) @@
  ("5" :> 5) @@ ("6" :> 6) @@ ("7" :> 7) @@ ("8" :> 8) @@ ("9" :> 9)

IsDigits(s) == \A i \in 1..Len(s) : s[i] \in DOMAIN DigitValue

RECURSIVE Number(_)
Number(s) ==
  IF s = <<>> THEN 0
  ELSE 10 * Number(SubSeq(s, 1, Len(s) - 1)) + DigitValue[s[Len(s)]]

\* the positions of "-" in s
Dashes(s) == {i \in 1..Len(s) : s[i] = "-"}

\* strptime's %Y: exactly four digits
MatchesY(s) == Len(s) = 4 /\ IsDigits(s)

\* strptime's %m: 1[0-2]|0[1-9]|[1-9]
MatchesM(s) ==
  /\ Len(s) \in {1, 2}
  /\ IsDigits(s)
  /\ Number(s) \in 1..12

\* strptime's %d: 3[01]|[12]\d|0[1-9]|[1-9]| [1-9]
MatchesD(s) ==
  \/ Len(s) \in {1, 2} /\ IsDigits(s) /\ Number(s) \in 1..31
  \/ Len(s) = 2 /\ s[1] = " " /\ s[2] \in DOMAIN DigitValue /\ s[2] # "0"

IsLeap(y) == (y % 4 = 0 /\ y % 100 # 0) \/ y % 400 = 0

DaysInMonth(y, m) ==
  IF m = 2 THEN (IF IsLeap(y) THEN 29 ELSE 28)
  ELSE IF m \in {4, 6, 9, 11} THEN 30 ELSE 31

\* datetime.min, as <<year, month, day>> (the time of day is always 00:00)
datetime_min == <<1, 1, 1>>

\* datetime.strptime(s, "%Y-%m-%d"): [ok |-> parsed, value |-> <<y, m, d>>];
\* not ok stands for the ValueError
strptime_ymd(s) ==
  LET failed == [ok |-> FALSE, value |-> datetime_min] IN
  IF Cardinality(Dashes(s)) # 2 THEN failed
  ELSE LET d1 == CHOOSE i \in Dashes(s) : \A j \in Dashes(s) : i <= j
           d2 == CHOOSE i \in Dashes(s) : \A j \in Dashes(s) : j <= i
           ys == SubSeq(s, 1, d1 - 1)
           ms == SubSeq(s, d1 + 1, d2 - 1)
           ds == SubSeq(s, d2 + 1, Len(s))
       IN IF ~(MatchesY(ys) /\ MatchesM(ms) /\ MatchesD(ds)) THEN failed
          ELSE LET y == Number(ys)
                   m == Number(ms)
                   d == Number(IF ds[1] = " " THEN SubSeq(ds, 2, 2) ELSE ds)
               IN IF y < 1 \/ d > DaysInMonth(y, m) THEN failed
                  ELSE [ok |-> TRUE, value |-> <<y, m, d>>]

\* the fallback taken for the newest date instead of datetime.min
_parse_pubdate_newest(paper) ==
  LET full == OrElse(paper.pubdate, <<>>)
      s == SubSeq(full, 1, IF Len(full) < 10 THEN Len(full) ELSE 10)
      r == strptime_ymd(s)
  IN IF r.ok THEN r.value ELSE <<9999, 12, 31>>

_parse_pubdate(paper) ==
  LET full == OrElse(paper.pubdate, <<>>)
      s == SubSeq(full, 1, IF Len(full) < 10 THEN Len(full) ELSE 10)
      r == strptime_ymd(s)
  IN IF r.ok THEN r.value ELSE datetime_min

-----------------------------------------------------------------------------
(* Relevance scoring + sorting *)

\* a keyword in both the title and the abstract counted twice
keyword_points_both(k, title, abstract, in_title, in_abstract) ==
  (IF Contains(k, title) THEN in_title ELSE 0)
  + (IF Contains(k, abstract) THEN in_abstract ELSE 0)

\* if k in title: score += in_title / elif k in abstract: score += in_abstract
keyword_points(k, title, abstract, in_title, in_abstract) ==
  IF Contains(k, title) THEN in_title
  ELSE IF Contains(k, abstract) THEN in_abstract ELSE 0

\* what one high-value keyword adds to the score; k = kw.lower() is bound to
\* its value, so it is lowered once
high_value_points(kw, title, abstract) ==
  CHOOSE points \in {keyword_points(k, title, abstract, 15, 10) : k \in {lower(kw)}} : TRUE

\* what one topic keyword adds to the score; k is kw.lower()
topic_points(k, title, abstract) ==
  IF k \in HIGH_VALUE_LOWER THEN 0
  ELSE keyword_points(k, title, abstract, 5, 3)

\* a loop that stops at the first keyword that matches
SumTo_first_hit(points, n) ==
  LET hits == {i \in 1..n : points[i] # 0}
  IN IF hits = {} THEN 0 ELSE points[CHOOSE i \in hits : \A j \in hits : i <= j]

\* points[1] + ... + points[n]
RECURSIVE SumTo(_, _)
SumTo(points, n) == IF n = 0 THEN 0 ELSE points[n] + SumTo(points, n - 1)

\* the body of calculate_relevance_score once title and abstract are set.
\* The second loop's k = kw.lower() is read from TOPIC_LOWER, which the module
\* computes from TOPIC_KEYWORDS by the same expression when it is loaded.
score_from(paper, title, abstract) ==
  LET high == [i \in 1..Len(HIGH_VALUE_KEYWORDS) |->
                 high_value_points(HIGH_VALUE_KEYWORDS[i], title, abstract)]
      topic == [i \in 1..Len(TOPIC_KEYWORDS) |->
                  topic_points(TOPIC_LOWER[i], title, abstract)]
  IN (IF has_priority_author(paper) THEN 25 ELSE 0)
     + SumTo(high, Len(HIGH_VALUE_KEYWORDS))
     + SumTo(topic, Len(TOPIC_KEYWORDS))

\* title and abstract are bound to their values, so each is lowered once
calculate_relevance_score(paper) ==
  CHOOSE score \in
    {score_from(paper, title, abstract) :
       title \in {lower(OrElse(paper.title, << <<>> >>)[1])},
       abstract \in {lower(OrElse(paper.abstract, <<>>))}} : TRUE

\* bands that exclude their lower bound
get_relevance_tier_exclusive(score) ==
  IF score > 20 THEN "MUST READ"
  ELSE IF score > 10 THEN "RELEVANT"
  ELSE IF score > 2 THEN "SOMEWHAT RELEVANT"
  ELSE "GENERAL"

get_relevance_tier(score) ==
  IF score >= 20 THEN "MUST READ"
  ELSE IF score >= 10 THEN "RELEVANT"
  ELSE IF score >= 2 THEN "SOMEWHAT RELEVANT"
  ELSE "GENERAL"

\* a < b for two datetimes
DateLess(a, b) ==
  \/ a[1] < b[1]
  \/ a[1] = b[1] /\ a[2] < b[2]
  \/ a[1] = b[1] /\ a[2] = b[2] /\ a[3] < b[3]

\* x < y for the sort key (x[1], x[2], x[3]) of two entries [p, pri, sc, dt]:
\* tuples compare lexicographically, False < True
KeyLess(x, y) ==
  \/ ~x.pri /\ y.pri
  \/ x.pri = y.pri /\ x.sc < y.sc
  \/ x.pri = y.pri /\ x.sc = y.sc /\ DateLess(x.dt, y.dt)

\* reverse=True left out: ascending order
InsertAt_ascending(out, x) ==
  1 + Cardinality({j \in 1..Len(out) : ~KeyLess(x, out[j])})

\* an ascending sort followed by list.reverse(): equal keys end up reversed
InsertAt_reversed_ties(out, x) ==
  1 + Cardinality({j \in 1..Len(out) : KeyLess(x, out[j])})

\* where list.sort(reverse=True) puts entry x in the sorted prefix out: after
\* every entry whose key is not smaller, so that equal keys keep their order
InsertAt(out, x) ==
  1 + Cardinality({j \in 1..Len(out) : ~KeyLess(out[j], x)})

RECURSIVE sort_reverse_from(_, _, _)
sort_reverse_from(scored, i, out) ==
  IF i > Len(scored) THEN out
  ELSE LET k == InsertAt(out, scored[i]) IN
       sort_reverse_from(scored, i + 1,
         SubSeq(out, 1, k - 1) \o <<scored[i]>> \o SubSeq(out, k, Len(out)))

\* the list scored of sort_papers
Scored(papers) ==
  [i \in 1..Len(papers) |->
     [p |-> papers[i],
      pri |-> has_priority_author(papers[i]),
      sc |-> calculate_relevance_score(papers[i]),
      dt |-> _parse_pubdate(papers[i])]]

sort_papers(papers) ==
  LET sorted == sort_reverse_from(Scored(papers), 1, <<>>)
  IN [i \in 1..Len(sorted) |-> sorted[i].p]

\* a list in place of the dict: every record is appended
DictSet_append(d, key, value) == Append(d, <<key, value>>)

\* setdefault in place of assignment: the first copy of a key is kept
DictSet_keep_first(d, key, value) ==
  IF \E i \in 1..Len(d) : d[i][1] = key THEN d ELSE Append(d, <<key, value>>)

\* by_bib[bc] = p on a dict kept as the sequence of its (key, value) pairs in
\* insertion order: an existing key keeps its place and takes the new value
DictSet(d, key, value) ==
  IF \E i \in 1..Len(d) : d[i][1] = key
  THEN [i \in 1..Len(d) |-> IF d[i][1] = key THEN <<key, value>> ELSE d[i]]
  ELSE Append(d, <<key, value>>)

RECURSIVE merge_from(_, _, _)
merge_from(papers, i, by_bib) ==
  IF i > Len(papers) THEN by_bib
  ELSE merge_from(papers, i + 1,
         IF Truthy(papers[i].bibcode)
         THEN DictSet(by_bib, papers[i].bibcode[1], papers[i])
         ELSE by_bib)

merge_unique_by_bibcode(papers) ==
  LET by_bib == merge_from(papers, 1, <<>>)
  IN [i \in 1..Len(by_bib) |-> by_bib[i][2]]

-----------------------------------------------------------------------------
(* Records *)

Paper(bibcode, title, abstract, author, orcid_pub, orcid_user, orcid_other, pubdate) ==
  [bibcode |-> bibcode, title |-> title, abstract |-> abstract, author |-> author,
   orcid_pub |-> orcid_pub, orcid_user |-> orcid_user, orcid_other |-> orcid_other,
   pubdate |-> pubdate]

\* bounded sequences over S
SeqUpTo(S, n) == UNION {[1..k -> S] : k \in 0..n}

T_Engulf == <<"E","n","g","u","l","f","m","e","n","t">>
T_Lithium == <<"L","i","t","h","i","u","m">>
T_Dust == <<"D","u","s","t">>
T_Both == <<"S","t","e","l","l","a","r"," ","a","g","e"," ","e","n","g","u","l","f","m","e","n","t">>
A_Lithium == <<"A"," ","l","i","t","h","i","u","m"," ","l","i","n","e",".">>
N_Vanderburg == <<"V","a","n","d","e","r","b","u","r","g",","," ","A","n","d","r","e","w">>
N_Doe == <<"D","o","e",","," ","J",".">>
D_May1 == <<"2","0","2","4","-","0","5","-","0","1">>
D_May2 == <<"2","0","2","4","-","0","5","-","0","2">>
D_Day0 == <<"2","0","2","4","-","0","5","-","0","0">>
D_Stamp == <<"2","0","2","4","-","0","6","-","0","1","T","0","0",":","0","0",":","0","0","Z">>

\* The records the list functions are applied to. P_b1 and P_b1_bare are two
\* copies of one paper, one without its abstract; P_b2 and P_b3 have equal
\* sort keys; P_pri has a priority author, no keyword and an unparsable date;
\* P_nobib and P_emptybib have no usable bibcode.
P_b1 == Paper(Some("b1"), Some(<<T_Engulf>>), Some(A_Lithium), Some(<<N_Doe>>), None, None, None, Some(D_May1))
P_b1_bare == Paper(Some("b1"), Some(<<T_Engulf>>), None, Some(<<N_Doe>>), None, None, None, Some(D_May1))
P_b2 == Paper(Some("b2"), Some(<<T_Lithium>>), None, Some(<<N_Doe>>), None, None, None, Some(D_May2))
P_b2_late == Paper(Some("b2"), Some(<<T_Lithium>>), None, Some(<<N_Doe>>), None, None, None, Some(D_Stamp))
P_b3 == Paper(Some("b3"), Some(<<T_Lithium>>), None, None, None, None, None, Some(D_May2))
P_pri == Paper(Some("b4"), Some(<<T_Dust>>), None, Some(<<N_Vanderburg>>), Some(<<"0000-0001-7246-5438">>), None, None, Some(D_Day0))
P_top == Paper(Some("b5"), Some(<<T_Both>>), None, Some(<<N_Doe>>), Some(<<"-">>), None, None, None)
P_nobib == Paper(None, Some(<<T_Engulf>>), None, Some(<<N_Vanderburg>>), None, Some(<<"0000-0001-7246-5438">>), None, Some(D_May1))
P_emptybib == Paper(Some(""), Some(<<T_Lithium>>), None, None, None, None, None, Some(D_May2))

ListPapers == {P_b1, P_b1_bare, P_b2, P_b2_late, P_b3, P_pri, P_top, P_nobib, P_emptybib}

MaxPapers == 3

-----------------------------------------------------------------------------
(* The list functions applied to bounded lists of records: SpecList *)

InitList ==
  /\ config = SourceConfig
  /\ fn = "input"
  /\ arg \in SeqUpTo(ListPapers, MaxPapers)
  /\ ret = None
  /\ RunIdle

\* merge_unique_by_bibcode(topic_papers + priority_papers), arg being the
\* concatenation of the fetched batches
CallMerge ==
  /\ fn = "input"
  /\ fn' = "merge_unique_by_bibcode"
  /\ ret' = merge_unique_by_bibcode(arg)
  /\ UNCHANGED <<globals, run, arg>>

CallSort ==
  /\ fn = "input"
  /\ fn' = "sort_papers"
  /\ ret' = sort_papers(arg)
  /\ UNCHANGED <<globals, run, arg>>

\* main's merge of the batches followed by create_email_content's sort
CallMergeSort ==
  /\ fn = "input"
  /\ fn' = "merge_sort"
  /\ ret' = sort_papers(merge_unique_by_bibcode(arg))
  /\ UNCHANGED <<globals, run, arg>>

\* the same again, on the result taken as a single batch
CallMergeSortAgain ==
  /\ fn = "merge_sort"
  /\ fn' = "merge_sort_again"
  /\ arg' = ret
  /\ ret' = sort_papers(merge_unique_by_bibcode(ret))
  /\ UNCHANGED <<globals, run>>

NextList == CallMerge \/ CallSort \/ CallMergeSort \/ CallMergeSortAgain

SpecList == InitList /\ [][NextList]_vars

-----------------------------------------------------------------------------
(* Properties of merge_unique_by_bibcode and sort_papers (SpecList) *)

\* the ids of a list of records: the bibcodes that are neither None nor ""
Ids(papers) == {papers[i].bibcode[1] : i \in {j \in 1..Len(papers) : Truthy(papers[j].bibcode)}}

\* the positions of s that hold a record with id b
IdPositions(s, b) == {i \in 1..Len(s) : s[i].bibcode = Some(b)}

\* the composite sort key of a record, False as 0 and True as 1
KeyOf(p) ==
  <<IF has_priority_author(p) THEN 1 ELSE 0, calculate_relevance_score(p)>>
  \o _parse_pubdate(p)

KeysOf(s) == [i \in 1..Len(s) |-> KeyOf(s[i])] \o <<>>

\* a < b lexicographically, for two keys
LexLess(a, b) ==
  \E i \in 1..Len(a) : a[i] < b[i] /\ \A j \in 1..(i - 1) : a[j] = b[j]

\* the records of s at the positions in idx, in their order in s
Pick(s, idx) ==
  LET nth(n) == CHOOSE i \in idx : Cardinality({j \in idx : j < i}) = n - 1
  IN [n \in 1..Cardinality(idx) |-> s[nth(n)]]

\* C1: the list merge_unique_by_bibcode returns holds exactly one record for
\* every id of its input, and no two records of it share an id (also when the
\* input copies of an id differ in their fields).
C1_OneRecordPerId ==
  fn = "merge_unique_by_bibcode" =>
    /\ \A b \in Ids(arg) : Cardinality(IdPositions(ret, b)) = 1
    /\ \A i, j \in 1..Len(ret) : i # j => ret[i].bibcode # ret[j].bibcode

\* the input holds both copies of b1, with and without the abstract
C1_Witness ==
  /\ fn = "merge_unique_by_bibcode"
  /\ P_b1 \in Range(arg) /\ P_b1_bare \in Range(arg)
  /\ Cardinality(IdPositions(ret, "b1")) = 1

\* C2: last-seen wins: the record the merged list holds for an id is the copy
\* at the last position of that id in the input.
C2_LastSeenWins ==
  fn = "merge_unique_by_bibcode" =>
    \A b \in Ids(arg) :
      LET last == CHOOSE i \in IdPositions(arg, b) : \A j \in IdPositions(arg, b) : j <= i
      IN \A k \in IdPositions(ret, b) : ret[k] = arg[last]

\* three copies of b1, the last one differing from the first
C2_Witness ==
  /\ fn = "merge_unique_by_bibcode"
  /\ Cardinality(IdPositions(arg, "b1")) = 3
  /\ arg[1] = P_b1 /\ arg[3] = P_b1_bare
  /\ ret = <<P_b1_bare>>

\* C3: the output of sort_papers is in descending order of the key
\* (is_priority, relevance_score, parsed date); in particular no record
\* without a priority author precedes one with a priority author.
C3_SortedByKey ==
  fn = "sort_papers" =>
    LET keys == KeysOf(ret) IN
    /\ \A i, j \in 1..Len(ret) : i < j => ~LexLess(keys[i], keys[j])
    /\ \A i, j \in 1..Len(ret) :
         has_priority_author(ret[j]) /\ ~has_priority_author(ret[i]) => j < i

\* a record with a higher score and no priority author came first in the
\* input and comes after the priority record in the output
C3_Witness ==
  /\ fn = "sort_papers"
  /\ arg = <<P_top, P_b2, P_pri>>
  /\ ret = <<P_pri, P_top, P_b2>>

\* C4: the sort is stable: the records of each key keep, in the output, the
\* order they have in the input.
C4_Stable ==
  fn = "sort_papers" =>
    LET ka == KeysOf(arg)
        kr == KeysOf(ret)
    IN \A k \in Range(ka) :
         Pick(ret, {i \in 1..Len(ret) : kr[i] = k})
           = Pick(arg, {i \in 1..Len(arg) : ka[i] = k})

\* two different records of equal key, in either input order
C4_Witness ==
  /\ fn = "sort_papers"
  /\ arg = <<P_b3, P_pri, P_b2>>
  /\ KeyOf(P_b3) = KeyOf(P_b2)
  /\ ret = <<P_pri, P_b3, P_b2>>

\* C5: merge followed by sort is idempotent: applied again to its own result
\* as a single batch it returns that result.
C5_Idempotent ==
  fn = "merge_sort_again" => ret = arg

\* the first result holds two different records of equal key
C5_Witness ==
  /\ fn = "merge_sort_again"
  /\ \E i, j \in 1..Len(arg) :
       i < j /\ arg[i] # arg[j] /\ KeyOf(arg[i]) = KeyOf(arg[j])
  /\ Len(ret) = 3

-----------------------------------------------------------------------------
(* The priority-author functions applied to one record: SpecRec *)

O_Vanderburg == "0000-0001-7246-5438"
O_Soares == "0000-0001-7493-7419"
O_Other == "0000-0002-1825-0097"
N_Soares == <<"S","o","a","r","e","s","-","F","u","r","t","a","d","o",","," ","M",".">>

MaxOrcids == 3

AuthorLists ==
  { None, Some(<<>>), Some(<<N_Doe>>), Some(<<N_Soares, N_Vanderburg>>),
    Some(<<N_Vanderburg, N_Doe, N_Vanderburg>>), Some(<<N_Doe, N_Doe, N_Doe, N_Soares>>) }

\* orcid_pub: absent, or any list of up to MaxOrcids values
OrcidPubLists ==
  {None} \cup {Some(s) : s \in SeqUpTo({"-", O_Vanderburg, O_Soares, O_Other}, MaxOrcids)}

OrcidUserLists ==
  { None, Some(<<O_Soares>>), Some(<<"-", O_Soares>>), Some(<<O_Vanderburg>>), Some(<<"">>) }

OrcidOtherLists == { None, Some(<<O_Vanderburg>>), Some(<<"-", "-", "-", O_Other>>) }

RecPapers ==
  { Paper(Some("b1"), Some(<<T_Dust>>), None, a, pub, user, other, None) :
      a \in AuthorLists, pub \in OrcidPubLists, user \in OrcidUserLists,
      other \in OrcidOtherLists }

InitRec ==
  /\ config = SourceConfig
  /\ fn = "input"
  /\ arg \in RecPapers
  /\ ret = None
  /\ RunIdle

CallHasPriorityAuthor ==
  /\ fn = "input"
  /\ fn' = "has_priority_author"
  /\ ret' = has_priority_author(arg)
  /\ UNCHANGED <<globals, run, arg>>

CallGetPriorityAuthors ==
  /\ fn = "input"
  /\ fn' = "get_priority_authors"
  /\ ret' = get_priority_authors(arg)
  /\ UNCHANGED <<globals, run, arg>>

NextRec == CallHasPriorityAuthor \/ CallGetPriorityAuthors

SpecRec == InitRec /\ [][NextRec]_vars

-----------------------------------------------------------------------------
(* Properties of the priority-author functions (SpecRec) *)

AuthorsOf(p) == OrElse(p.author, <<>>)
OrcidsOf(p, f) == OrElse(p[OrcidFields[f]], <<>>)

\* the places <<field, position>> of a record's identifier fields that hold
\* a priority identifier
PriorityPlaces(p) ==
  {<<f, i>> : f \in 1..Len(OrcidFields), i \in 1..(MaxOrcids + 1)} \cap
  {pl \in (1..Len(OrcidFields)) \X (1..(MaxOrcids + 1)) :
     /\ pl[2] <= Len(OrcidsOf(p, pl[1]))
     /\ OrcidsOf(p, pl[1])[pl[2]] \in Range(PRIORITY_ORCIDS)}

\* some identifier of the record is in the priority list
IdMatch(p) == PriorityPlaces(p) # {}

\* every identifier field is absent, empty or holds only "-" and ""
AllPlaceholders(p) ==
  \A f \in 1..Len(OrcidFields) : Range(OrcidsOf(p, f)) \subseteq {"-", ""}

\* The name fallback of the specification, which the scripts do not have:
\* a name is normalized (lower case, periods and commas removed, outer
\* whitespace trimmed) and compared with the normalized known variants.
PRIORITY_NAME_VARIANTS ==
  { <<"A","n","d","r","e","w"," ","V","a","n","d","e","r","b","u","r","g">>,
    <<"V","a","n","d","e","r","b","u","r","g",","," ","A","n","d","r","e","w">>,
    <<"M","e","l","i","n","d","a"," ","S","o","a","r","e","s","-","F","u","r","t","a","d","o">>,
    <<"S","o","a","r","e","s","-","F","u","r","t","a","d","o",","," ","M",".">> }

NotPunctuation(c) == c \notin {".", ","}

normalize_name(n) == strip(SelectSeq(lower(n), NotPunctuation))

NameMatch(p) ==
  \E i \in 1..Len(AuthorsOf(p)) :
    normalize_name(AuthorsOf(p)[i]) \in {normalize_name(v) : v \in PRIORITY_NAME_VARIANTS}

\* C8 as stated: has_priority_author is true iff an identifier of the record
\* is a priority identifier or a normalized author name is a known priority
\* name variant.
C8_IdOrName ==
  fn = "has_priority_author" => (ret <=> (IdMatch(arg) \/ NameMatch(arg)))

\* C8 amended: has_priority_author is true iff a value of orcid_pub,
\* orcid_user or orcid_other is a priority identifier; author names play no
\* part, and a record whose identifiers are all absent or placeholders is not
\* a priority record.
C8_IdOnly ==
  fn = "has_priority_author" =>
    /\ ret <=> IdMatch(arg)
    /\ AllPlaceholders(arg) => ~ret

\* a record whose only priority identifier is outside orcid_pub, and a
\* priority name on a record without a priority identifier
C8_Witness ==
  /\ fn = "has_priority_author"
  /\ \/ ret /\ PriorityPlaces(arg) = {<<3, 1>>}
     \/ ~ret /\ NameMatch(arg) /\ AllPlaceholders(arg)

\* C9: no index error, whatever the lengths of the identifier lists and of
\* the author list: every returned name is the author at a position that
\* holds a priority identifier, a priority identifier beyond the authors
\* gives no name, and has_priority_author is true for it all the same.
C9_Scenario ==
  Paper(Some("b1"), Some(<<T_Dust>>), None, Some(<<N_Soares, N_Vanderburg>>),
        Some(<<"-", "-", O_Vanderburg>>), None, None, None)

C9_NoIndexError ==
  /\ fn = "get_priority_authors" =>
       /\ ~ret.raised
       /\ \A k \in 1..Len(ret.names) :
            \E pl \in PriorityPlaces(arg) :
              pl[2] <= Len(AuthorsOf(arg)) /\ AuthorsOf(arg)[pl[2]] = ret.names[k]
       /\ arg = C9_Scenario => ret.names = <<>>
  /\ fn = "has_priority_author" =>
       /\ IdMatch(arg) => ret
       /\ arg = C9_Scenario => ret

\* a priority identifier at a position the author list does not have
C9_Witness ==
  /\ fn = "get_priority_authors"
  /\ arg = C9_Scenario
  /\ ret = [raised |-> FALSE, names |-> <<>>]
  /\ has_priority_author(arg)

NoDuplicates(s) == \A i, j \in 1..Len(s) : i # j => s[i] # s[j]

FirstPosition(s, x) == CHOOSE i \in 1..Len(s) : s[i] = x /\ \A j \in 1..(i - 1) : s[j] # x

\* C10 as stated: the returned names are pairwise different and in the
\* order of their first occurrence in the authors list.
C10_AuthorsOrder ==
  fn = "get_priority_authors" =>
    /\ NoDuplicates(ret.names)
    /\ \A a, b \in 1..Len(ret.names) :
         a < b => FirstPosition(AuthorsOf(arg), ret.names[a])
                    < FirstPosition(AuthorsOf(arg), ret.names[b])

\* the places that give a name: a priority identifier at a position of authors
NamedPlaces(p) == {pl \in PriorityPlaces(p) : pl[2] <= Len(AuthorsOf(p))}

PlaceBefore(x, y) == x[1] < y[1] \/ (x[1] = y[1] /\ x[2] < y[2])

\* the first place, in the order orcid_pub, orcid_user, orcid_other and by
\* position within a field, that gives the name
FirstPlace(p, name) ==
  CHOOSE pl \in NamedPlaces(p) :
    /\ AuthorsOf(p)[pl[2]] = name
    /\ \A q \in NamedPlaces(p) : AuthorsOf(p)[q[2]] = name => ~PlaceBefore(q, pl)

\* C10 amended: the returned names are pairwise different, they are the
\* authors at the places that hold a priority identifier, and they are in the
\* order in which the walk over orcid_pub, then orcid_user, then orcid_other
\* (each by position) first reaches them.
C10_WalkOrder ==
  fn = "get_priority_authors" =>
    /\ NoDuplicates(ret.names)
    /\ Range(ret.names) = {AuthorsOf(arg)[pl[2]] : pl \in NamedPlaces(arg)}
    /\ \A a, b \in 1..Len(ret.names) :
         a < b => PlaceBefore(FirstPlace(arg, ret.names[a]), FirstPlace(arg, ret.names[b]))

\* the second author is matched in orcid_pub and the first one in orcid_user
C10_Witness ==
  /\ fn = "get_priority_authors"
  /\ arg.author = Some(<<N_Soares, N_Vanderburg>>)
  /\ arg.orcid_pub = Some(<<"-", O_Vanderburg>>)
  /\ arg.orcid_user = Some(<<O_Soares>>)
  /\ ret.names = <<N_Vanderburg, N_Soares>>

-----------------------------------------------------------------------------
(* Building the ADS queries.  A query is kept as its parts: the classes it   *)
(* is restricted to, the ORCID it asks for (None for the topic query), the   *)
(* "(title:.. OR abs:..)" parts that " OR " joins into the keyword clause,   *)
(* and the number of days of its entdate range.                              *)

\* s.replace('"', r'\"')
RECURSIVE escape_quotes(_)
escape_quotes(s) ==
  IF s = <<>> THEN <<>>
  ELSE (IF Head(s) = "\"" THEN <<"\\", "\"">> ELSE <<Head(s)>>) \o escape_quotes(Tail(s))

_escape_ads_phrase(s) == strip(escape_quotes(s))

\* f'(title:"{kw2}" OR abs:"{kw2}")'
KeywordPart(kw2) == [title |-> kw2, abs |-> kw2]

NonEmpty(s) == s # <<>>

\* the clause build_keyword_clause falls back to
StarClause == <<KeywordPart(<<"s", "t", "a", "r">>)>>

build_keyword_clause ==
  LET escaped == [i \in 1..Len(TOPIC_KEYWORDS) |-> _escape_ads_phrase(TOPIC_KEYWORDS[i])]
      kept == SelectSeq(escaped, NonEmpty)
      parts == [i \in 1..Len(kept) |-> KeywordPart(kept[i])]
  IN IF parts # <<>> THEN parts ELSE StarClause

sr_ep_only == {"astro-ph.SR", "astro-ph.EP"}

build_query(days_back) ==
  [arxiv_class |-> sr_ep_only, orcid |-> None,
   keyword_clause |-> build_keyword_clause, entdate |-> days_back]

build_priority_orcid_query(orcid_id, days_back) ==
  [arxiv_class |-> sr_ep_only, orcid |-> Some(orcid_id),
   keyword_clause |-> build_keyword_clause, entdate |-> days_back]

-----------------------------------------------------------------------------
(* ADS access.  ADS answers a query with a reply: status "error" is a        *)
(* request that fails (no connection, a timeout, an HTTP error status),      *)
(* status "ok" carries the docs of the JSON body, None when the body has     *)
(* no response.docs.                                                         *)

\* what query_ads returns (docs) or raises (raised) on a reply
query_ads(reply) ==
  IF reply.status = "error"
  THEN [raised |-> Some("RequestException"), docs |-> <<>>]
  ELSE [raised |-> None, docs |-> IF reply.docs = None THEN <<>> ELSE reply.docs[1]]

\* a topic query whose failure is swallowed
query_topic_papers_caught(reply) == [raised |-> None, docs |-> query_ads(reply).docs]

\* no try/except around query_ads: what it raises, query_topic_papers raises
query_topic_papers(reply) == query_ads(reply)

-----------------------------------------------------------------------------
(* The digest *)

Tiers == {"MUST READ", "RELEVANT", "SOMEWHAT RELEVANT", "GENERAL"}

\* the tier_counts loop of main and of create_email_content
tier_counts(papers) ==
  [t \in Tiers |->
     Cardinality({i \in 1..Len(papers) :
                    get_relevance_tier(calculate_relevance_score(papers[i])) = t})]

\* the subject, html and text are built from these
create_email_content(papers, days_back) ==
  [sorted_papers |-> sort_papers(papers),
   tier_counts |-> tier_counts(papers),
   total |-> Len(papers),
   days_back |-> days_back]

\* int(s) for a str: None when it raises ValueError
int(s) ==
  LET t == strip(s)
      signed == t # <<>> /\ t[1] \in {"-", "+"}
      digits == IF signed THEN Tail(t) ELSE t
  IN IF digits = <<>> \/ ~IsDigits(digits) THEN None
     ELSE Some(IF signed /\ t[1] = "-" THEN 0 - Number(digits) ELSE Number(digits))

-----------------------------------------------------------------------------
(* One run of main() of src/topic_digest.py *)

\* the most records ADS returns over the queries of one run
MaxFetched == 2

RunPapers == {P_top, P_pri}

\* the literals of the run: the source's, no keywords, no priority ORCIDs
RunConfigs == {c \in Configs : c.high = "source" /\ c.topic \in {"source", "empty"}}

Env(api_key, days_back, sender_email) ==
  [ADS_API_KEY |-> api_key, DAYS_BACK |-> days_back, SENDER_EMAIL |-> sender_email]

Environs ==
  { Env(None, None, None),
    Env(Some(""), None, None),
    Env(Some("key"), Some(<<"x">>), None),
    Env(Some("key"), None, None),
    Env(Some("key"), Some(<<"7">>), Some("sender@example.org")) }

\* int(os.environ.get("DAYS_BACK", "1")), None when int raises
DaysBack == int(IF environ.DAYS_BACK = None THEN <<"1">> ELSE environ.DAYS_BACK[1])

Fetched == Len(topic_papers) + Len(priority_papers)

\* what ADS may answer to the next query
AdsReplies ==
  {[status |-> "error", docs |-> None], [status |-> "ok", docs |-> None]}
  \cup {[status |-> "ok", docs |-> Some(d)] : d \in SeqUpTo(RunPapers, MaxFetched - Fetched)}

\* the record of one call of query_ads
Call(orcid, reply, result) == [orcid |-> orcid, status |-> reply.status, docs |-> result.docs]

InitRun ==
  /\ config \in RunConfigs
  /\ fn = "main"
  /\ arg = None
  /\ ret = None
  /\ pc = "main"
  /\ environ \in Environs
  /\ issued = <<>>
  /\ topic_papers = <<>>
  /\ priority_papers = <<>>
  /\ oid_i = 0
  /\ main_papers = None
  /\ email = None
  /\ delivered = "no"
  /\ log = <<>>
  /\ raised = None

\* main up to its first query: the API key and DAYS_BACK
Start ==
  /\ pc = "main"
  /\ IF ~Truthy(environ.ADS_API_KEY) \/ DaysBack = None
     THEN /\ raised' = Some("ValueError")
          /\ pc' = "raised"
          /\ UNCHANGED log
     ELSE /\ pc' = "topic"
          /\ log' = log \o << <<"Querying ADS for topic-relevant papers", DaysBack[1]>>,
                             <<"Priority ORCIDs", PRIORITY_ORCIDS>> >>
          /\ UNCHANGED raised
  /\ UNCHANGED <<globals, call, environ, issued, topic_papers, priority_papers,
                 oid_i, main_papers, email, delivered>>

\* topic_papers = query_topic_papers(api_key, days_back, rows=500)
QueryTopic ==
  /\ pc = "topic"
  /\ \E reply \in AdsReplies :
       LET result == query_topic_papers(reply)
       IN /\ issued' = Append(issued, Call(None, reply, result))
          /\ IF result.raised # None
             THEN /\ raised' = result.raised
                  /\ pc' = "raised"
                  /\ UNCHANGED <<topic_papers, oid_i, log>>
             ELSE /\ topic_papers' = result.docs
                  /\ log' = Append(log, <<"Found topic papers", Len(result.docs)>>)
                  /\ oid_i' = 1
                  /\ pc' = "priority"
                  /\ UNCHANGED raised
  /\ UNCHANGED <<globals, call, environ, priority_papers, main_papers, email, delivered>>

\* the list walked from its end
oid_at_reversed(i) == PRIORITY_ORCIDS[Len(PRIORITY_ORCIDS) + 1 - i]

\* for oid in PRIORITY_ORCIDS: the ORCID of turn i
oid_at(i) == PRIORITY_ORCIDS[i]

\* one turn of the loop of query_priority_papers
QueryPriority ==
  /\ pc = "priority"
  /\ oid_i <= Len(PRIORITY_ORCIDS)
  /\ \E reply \in AdsReplies :
       LET oid == oid_at(oid_i)
           result == query_ads(reply)
       IN /\ issued' = Append(issued, Call(Some(oid), reply, result))
          /\ IF result.raised = None
             THEN /\ priority_papers' = priority_papers \o result.docs
                  /\ UNCHANGED log
             ELSE /\ log' = Append(log, <<"Warning: ORCID query failed", oid>>)
                  /\ UNCHANGED priority_papers
  /\ oid_i' = oid_i + 1
  /\ UNCHANGED <<globals, call, pc, environ, topic_papers, main_papers, email,
                 delivered, raised>>

\* main from the return of query_priority_papers to create_email_content
BuildDigest ==
  /\ pc = "priority"
  /\ oid_i > Len(PRIORITY_ORCIDS)
  /\ LET merged == merge_unique_by_bibcode(topic_papers \o priority_papers)
     IN /\ main_papers' = Some(merged)
        /\ log' = log \o << <<"Found priority-ORCID papers", Len(priority_papers)>>,
                           <<"total after merging/deduping", Len(merged)>>,
                           <<"tiers", tier_counts(merged)>> >>
        /\ email' = Some(create_email_content(merged, DaysBack[1]))
  /\ pc' = "email"
  /\ UNCHANGED <<globals, call, environ, issued, topic_papers, priority_papers,
                 oid_i, delivered, raised>>

\* the end of main: send_email, or the text on stdout
Deliver ==
  /\ pc = "email"
  /\ \E outcome \in (IF Truthy(environ.SENDER_EMAIL) THEN {"sent", "error"} ELSE {"printed"}) :
       IF outcome = "error"
       THEN /\ raised' = Some("send_email")
            /\ pc' = "raised"
            /\ UNCHANGED <<delivered, log>>
       ELSE /\ delivered' = outcome
            /\ log' = Append(log, IF outcome = "sent"
                                  THEN <<"Email sent successfully">>
                                  ELSE <<"Email credentials not configured. Email content">>)
            /\ pc' = "done"
            /\ UNCHANGED raised
  /\ UNCHANGED <<globals, call, environ, issued, topic_papers, priority_papers,
                 oid_i, main_papers, email>>

NextRun == Start \/ QueryTopic \/ QueryPriority \/ BuildDigest \/ Deliver

SpecRun == InitRun /\ [][NextRun]_vars

-----------------------------------------------------------------------------
(* Properties of the run *)

RunEnded == pc \in {"done", "raised"}

Failed(i) == issued[i].status = "error"

TopicFailed == \E i \in 1..Len(issued) : issued[i].orcid = None /\ Failed(i)

\* the query of the i-th call of query_ads
QueryOf(i) ==
  IF issued[i].orcid = None THEN build_query(DaysBack[1])
  ELSE build_priority_orcid_query(issued[i].orcid[1], DaysBack[1])

\* the records the calls returned, in the order of the calls
RECURSIVE DocsOf(_)
DocsOf(calls) == IF calls = <<>> THEN <<>> ELSE calls[1].docs \o DocsOf(Tail(calls))

\* a printed line reports the failure of the i-th call
Logged(i) ==
  \E k \in 1..Len(log) :
    /\ log[k][1] = "Warning: ORCID query failed"
    /\ issued[i].orcid = Some(log[k][2])

\* C6: the failure of any one upstream query (the topic query or an ORCID
\* query) is logged and is not fatal: the run goes on, the records the other
\* queries returned reach the merge, and a digest is built.
C6_FailureIsolated ==
  /\ \A i \in 1..Len(issued) : Failed(i) => Logged(i) /\ raised # Some("RequestException")
  /\ main_papers # None => main_papers[1] = merge_unique_by_bibcode(DocsOf(issued))
  /\ pc = "done" => email # None

\* the part of C6 the code has: the same for the ORCID queries alone
PriorityFailureIsolated ==
  /\ \A i \in 1..Len(issued) :
       issued[i].orcid # None /\ Failed(i) => Logged(i) /\ raised # Some("RequestException")
  /\ main_papers # None => main_papers[1] = merge_unique_by_bibcode(DocsOf(issued))
  /\ pc = "done" => email # None

NoDigest == main_papers = None /\ email = None /\ delivered = "no"

BadEnviron == ~Truthy(environ.ADS_API_KEY) \/ DaysBack = None

C7_EmptyListsDigest ==
  /\ config.topic = "empty"
  /\ config.orcids = "empty"
  /\ pc = "done"
  /\ email # None

-----------------------------------------------------------------------------
(* Calls of calculate_relevance_score and get_relevance_tier, on records     *)
(* whose title is up to MaxWords phrases joined by blanks, under each        *)
(* configuration of the keyword lists, and again after the lists are         *)
(* reordered.                                                                *)

MaxWords == 2

W_Gyro == <<"G","y","r","o","c","h","r","o","n","o","l","o","g","y">>
W_OfNGC == <<"o","f"," ","N","G","C"," ","1","8","8">>
W_MESA == <<"M","E","S","A">>
W_Age == <<"s","t","e","l","l","a","r"," ","a","g","e">>
A_Engulf == <<"E","n","g","u","l","f","m","e","n","t"," ","s","e","e","n"," ","b","y"," ","M","E","S","A",".">>

TitleWords == {W_Gyro, W_OfNGC, W_MESA, W_Age, T_Lithium, T_Dust}

\* " ".join(words)
RECURSIVE JoinWords(_)
JoinWords(words) ==
  IF words = <<>> THEN <<>>
  ELSE IF Len(words) = 1 THEN words[1]
  ELSE words[1] \o <<" ">> \o JoinWords(Tail(words))

TitleFields ==
  {None, Some(<<>>)} \cup {Some(<<JoinWords(ws)>>) : ws \in SeqUpTo(TitleWords, MaxWords)}

AbstractFields == {None, Some(<<>>), Some(A_Lithium), Some(A_Engulf)}

ScorePapers ==
  {Paper(Some("b1"), t, a, Some(<<N_Doe>>), o, None, None, None) :
     t \in TitleFields, a \in AbstractFields, o \in {None, Some(<<O_Vanderburg>>)}}

\* two lists hold the same keywords, each as often
SameItems(a, b) ==
  /\ Len(a) = Len(b)
  /\ \A i \in 1..Len(a) :
       Cardinality({j \in 1..Len(a) : a[j] = a[i]}) = Cardinality({j \in 1..Len(b) : b[j] = a[i]})

\* the literals that list the keywords of a literal in another order
HighReorderings ==
  ("source" :> {m \in DOMAIN HighLiterals : SameItems(HighLiterals["source"], HighLiterals[m])}) @@
  ("empty" :> {m \in DOMAIN HighLiterals : SameItems(HighLiterals["empty"], HighLiterals[m])}) @@
  ("reversed" :> {m \in DOMAIN HighLiterals : SameItems(HighLiterals["reversed"], HighLiterals[m])}) @@
  ("case" :> {m \in DOMAIN HighLiterals : SameItems(HighLiterals["case"], HighLiterals[m])}) @@
  ("h123" :> {m \in DOMAIN HighLiterals : SameItems(HighLiterals["h123"], HighLiterals[m])}) @@
  ("h132" :> {m \in DOMAIN HighLiterals : SameItems(HighLiterals["h132"], HighLiterals[m])}) @@
  ("h213" :> {m \in DOMAIN HighLiterals : SameItems(HighLiterals["h213"], HighLiterals[m])}) @@
  ("h231" :> {m \in DOMAIN HighLiterals : SameItems(HighLiterals["h231"], HighLiterals[m])}) @@
  ("h312" :> {m \in DOMAIN HighLiterals : SameItems(HighLiterals["h312"], HighLiterals[m])}) @@
  ("h321" :> {m \in DOMAIN HighLiterals : SameItems(HighLiterals["h321"], HighLiterals[m])})

TopicReorderings ==
  ("source" :> {m \in DOMAIN TopicLiterals : SameItems(TopicLiterals["source"], TopicLiterals[m])}) @@
  ("empty" :> {m \in DOMAIN TopicLiterals : SameItems(TopicLiterals["empty"], TopicLiterals[m])}) @@
  ("reversed" :> {m \in DOMAIN TopicLiterals : SameItems(TopicLiterals["reversed"], TopicLiterals[m])}) @@
  ("case" :> {m \in DOMAIN TopicLiterals : SameItems(TopicLiterals["case"], TopicLiterals[m])}) @@
  ("t12" :> {m \in DOMAIN TopicLiterals : SameItems(TopicLiterals["t12"], TopicLiterals[m])}) @@
  ("t21" :> {m \in DOMAIN TopicLiterals : SameItems(TopicLiterals["t21"], TopicLiterals[m])})

ShortHigh == {"h123", "h132", "h213", "h231", "h312", "h321"}
ShortTopic == {"t12", "t21"}

\* the source's lists in both orders, the lists with case variants, the
\* short lists in every order, and no keywords
ScoreConfigs ==
  {c \in Configs :
     /\ c.orcids = "source"
     /\ \/ c.high = "source" /\ c.topic = "source"
        \/ c.high = "reversed" /\ c.topic = "reversed"
        \/ c.high = "case" /\ c.topic = "case"
        \/ c.high \in ShortHigh /\ c.topic \in ShortTopic
        \/ c.high = "empty" /\ c.topic = "empty"}

InitScore ==
  /\ config \in ScoreConfigs
  /\ fn = "input"
  /\ arg \in ScorePapers
  /\ ret = None
  /\ RunIdle

CallScore ==
  /\ fn = "input"
  /\ fn' = "calculate_relevance_score"
  /\ ret' = calculate_relevance_score(arg)
  /\ UNCHANGED <<globals, run, arg>>

\* get_relevance_tier(score) on the score of the record, as main and
\* create_email_content call it
CallTier ==
  /\ fn = "calculate_relevance_score"
  /\ fn' = "get_relevance_tier"
  /\ ret' = [score |-> ret, tier |-> get_relevance_tier(ret)]
  /\ UNCHANGED <<globals, run, arg>>

\* the module is loaded with the same keywords in another order, and the
\* record is scored again
CallScoreReordered ==
  /\ fn = "calculate_relevance_score"
  /\ \E h \in HighReorderings[config.high], t \in TopicReorderings[config.topic] :
       /\ h # config.high \/ t # config.topic
       /\ config' = [config EXCEPT !.high = h, !.topic = t]
  /\ arg' = arg
  /\ fn' = "calculate_relevance_score again"
  /\ ret' = [before |-> ret, after |-> calculate_relevance_score(arg)']
  /\ UNCHANGED run

NextScore == CallScore \/ CallTier \/ CallScoreReordered

SpecScore == InitScore /\ [][NextScore]_vars

-----------------------------------------------------------------------------
(* Calls of get_relevance_tier: on any integer from -MaxScore to MaxScore,   *)
(* and on the score of a record.                                             *)

MaxScore == 40

TierPapers ==
  {Paper(Some("b1"), Some(<<JoinWords(ws)>>), Some(<<>>), Some(<<N_Doe>>), None, None, None, None) :
     ws \in {<<W_Gyro, W_OfNGC>>, <<W_Gyro>>, <<W_OfNGC>>, <<T_Dust>>}}

InitTier ==
  /\ config = SourceConfig
  /\ \/ fn = "input score" /\ arg \in (0 - MaxScore)..MaxScore
     \/ fn = "input" /\ arg \in TierPapers
  /\ ret = None
  /\ RunIdle

\* get_relevance_tier(score) on any integer
CallTierOn ==
  /\ fn = "input score"
  /\ fn' = "get_relevance_tier(int)"
  /\ ret' = get_relevance_tier(arg)
  /\ UNCHANGED <<globals, run, arg>>

NextTier == CallTierOn \/ CallScore \/ CallTier

SpecTier == InitTier /\ [][NextTier]_vars

-----------------------------------------------------------------------------
(* Properties of the score *)

\* the title and the abstract of a record, "" when there is none
TitleOf(p) == IF p.title = None \/ p.title[1] = <<>> THEN <<>> ELSE p.title[1][1]
AbstractOf(p) == IF p.abstract = None THEN <<>> ELSE p.abstract[1]

\* the reference sum over the keywords high (lowered) and topic (lowered), for
\* a lowered title and abstract: a keyword counts in the title, or else in
\* the abstract; a topic keyword of the high-value tier does not count
ReferenceSumOf(p, high, topic, title, abstract) ==
  LET H == 1..Len(high)
      T == {i \in 1..Len(topic) : \A j \in H : high[j] # topic[i]}
  IN 15 * Cardinality({i \in H : Contains(high[i], title)})
     + 10 * Cardinality({i \in H : ~Contains(high[i], title) /\ Contains(high[i], abstract)})
     + 5 * Cardinality({i \in T : Contains(topic[i], title)})
     + 3 * Cardinality({i \in T : ~Contains(topic[i], title) /\ Contains(topic[i], abstract)})
     + (IF IdMatch(p) THEN 25 ELSE 0)

ReferenceSum(p) ==
  CHOOSE sum \in
    {ReferenceSumOf(p, high, topic, title, abstract) :
       high \in {LowerAll(HIGH_VALUE_KEYWORDS)}, topic \in {LowerAll(TOPIC_KEYWORDS)},
       title \in {lower(TitleOf(p))}, abstract \in {lower(AbstractOf(p))}} : TRUE

\* C11: the score of a record is the reference sum: per high-value keyword
\* 15 in the title, else 10 in the abstract; per standard keyword outside the
\* high-value tier 5 in the title, else 3 in the abstract; 25 for a priority
\* record; matching ignores letter case.
C11_ReferenceSum ==
  fn = "calculate_relevance_score" => ret = ReferenceSum(arg)

\* a priority record with a high-value keyword in the title, another in the
\* abstract only, and a standard keyword in both the title and the abstract
C11_Witness ==
  /\ fn = "calculate_relevance_score"
  /\ config = SourceConfig
  /\ arg.title = Some(<<JoinWords(<<W_Gyro, W_MESA>>)>>)
  /\ arg.abstract = Some(A_Engulf)
  /\ arg.orcid_pub = Some(<<O_Vanderburg>>)
  /\ ret = 25 + 15 + 10 + 5

\* the sum over the distinct keywords: keywords that differ only in letter
\* case are one keyword, and a keyword of both tiers is a high-value keyword
DistinctSumOf(p, high, topic, title, abstract) ==
  LET H == Range(high)
      T == Range(topic) \ H
  IN 15 * Cardinality({k \in H : Contains(k, title)})
     + 10 * Cardinality({k \in H : ~Contains(k, title) /\ Contains(k, abstract)})
     + 5 * Cardinality({k \in T : Contains(k, title)})
     + 3 * Cardinality({k \in T : ~Contains(k, title) /\ Contains(k, abstract)})
     + (IF IdMatch(p) THEN 25 ELSE 0)

DistinctSum(p) ==
  CHOOSE sum \in
    {DistinctSumOf(p, high, topic, title, abstract) :
       high \in {LowerAll(HIGH_VALUE_KEYWORDS)}, topic \in {LowerAll(TOPIC_KEYWORDS)},
       title \in {lower(TitleOf(p))}, abstract \in {lower(AbstractOf(p))}} : TRUE

\* C12: whatever the keyword lists, a keyword adds to the score at most once:
\* keywords that differ only in letter case, within a list or across the two
\* lists, count as one keyword, at the high-value weight when it is in both.
C12_CountedOnce ==
  fn = "calculate_relevance_score" => ret = DistinctSum(arg)

\* the part of C12 the code has: a standard keyword that is, up to letter
\* case, a high-value keyword adds nothing of its own
C12_AcrossTiers ==
  fn = "calculate_relevance_score" =>
    \A i \in 1..Len(TOPIC_KEYWORDS) :
      lower(TOPIC_KEYWORDS[i]) \in Range(LowerAll(HIGH_VALUE_KEYWORDS)) =>
        topic_points(TOPIC_LOWER[i], lower(TitleOf(arg)), lower(AbstractOf(arg))) = 0

-----------------------------------------------------------------------------
(* Properties of the tier *)

\* the bands: a tier and the scores it holds
InBand(t, score) ==
  \/ t = "MUST READ" /\ score >= 20
  \/ t = "RELEVANT" /\ score \in 10..19
  \/ t = "SOMEWHAT RELEVANT" /\ score \in 2..9
  \/ t = "GENERAL" /\ score < 2

C13_Scenario ==
  Paper(Some("b1"), Some(<<JoinWords(<<W_Gyro, W_OfNGC>>)>>), Some(<<>>), Some(<<N_Doe>>),
        None, None, None, None)

\* C13: every integer score is in exactly one band, and get_relevance_tier
\* returns that band's tier: MUST READ from 20, RELEVANT for 10..19, SOMEWHAT
\* RELEVANT for 2..9, GENERAL below.  The record titled "Gyrochronology of
\* NGC 188" with an empty abstract scores 20 and is MUST READ.
C13_Bands ==
  /\ fn = "get_relevance_tier(int)" =>
       /\ InBand(ret, arg)
       /\ \A t \in Tiers : InBand(t, arg) => t = ret
  /\ fn = "get_relevance_tier" =>
       /\ InBand(ret.tier, ret.score)
       /\ \A t \in Tiers : InBand(t, ret.score) => t = ret.tier
  /\ fn = "get_relevance_tier" /\ arg = C13_Scenario =>
       ret.score = 20 /\ ret.tier = "MUST READ"

C13_Witness ==
  /\ fn = "get_relevance_tier"
  /\ arg = C13_Scenario
  /\ ret = [score |-> 20, tier |-> "MUST READ"]

-----------------------------------------------------------------------------
(* The score and the order of the keyword lists *)

\* C14: a record scores the same after the keyword lists are reordered,
\* whatever the order, and the score is a non-negative integer.
C14_OrderIndependent ==
  /\ fn = "calculate_relevance_score" => ret \in Nat
  /\ fn = "calculate_relevance_score again" =>
       ret.after = ret.before /\ ret.after \in Nat

\* a record with one keyword in the title and another in the abstract, scored
\* under the short lists in reverse order after another order
C14_Witness ==
  /\ fn = "calculate_relevance_score again"
  /\ config.high = "h321"
  /\ config.topic = "t21"
  /\ arg.title = Some(<<JoinWords(<<W_Gyro, W_MESA>>)>>)
  /\ arg.abstract = Some(A_Lithium)
  /\ ret = [before |-> 15 + 10 + 5, after |-> 15 + 10 + 5]

\* ---------------------------------------------------------------------------
\* Publication dates: _parse_pubdate and the third sort key
\* ---------------------------------------------------------------------------

MaxDated == 2

D_Year1 == <<"0","0","0","1","-","0","1","-","0","1">>
D_Short == <<"2","0","2","4","-","5","-","1">>
D_Text == <<"M","a","y"," ","2","0","2","4">>

\* paper.get("pubdate"): missing or null, empty, a date, a date with day 00
\* as ADS writes a month, a timestamp, the first day datetime can hold, a date
\* without zero padding, and free text
DateFields ==
  {None, Some(<<>>), Some(D_May1), Some(D_Day0), Some(D_Stamp), Some(D_Year1),
   Some(D_Short), Some(D_Text)}

\* records of two scores without a priority author, and two records with one
DatePapers ==
  {Paper(Some("b1"), Some(<<t>>), None, Some(<<N_Doe>>), None, None, None, d) :
     t \in {T_Lithium, T_Dust}, d \in DateFields}
  \cup
  {Paper(Some("b4"), Some(<<T_Dust>>), None, Some(<<N_Vanderburg>>),
         Some(<<O_Vanderburg>>), None, None, d) : d \in {None, Some(D_May1)}}

InitDate ==
  /\ config = SourceConfig
  /\ \/ fn = "input paper" /\ arg \in DatePapers
     \/ fn = "input" /\ arg \in SeqUpTo(DatePapers, MaxDated)
  /\ ret = None
  /\ RunIdle

CallParsePubdate ==
  /\ fn = "input paper"
  /\ fn' = "_parse_pubdate"
  /\ ret' = _parse_pubdate(arg)
  /\ UNCHANGED <<globals, run, arg>>

NextDate == CallParsePubdate \/ CallSort

SpecDate == InitDate /\ [][NextDate]_vars

\* a string that is a calendar date written YYYY-MM-DD, and nothing else
IsYMD(s) ==
  /\ Len(s) = 10
  /\ s[5] = "-" /\ s[8] = "-"
  /\ \A i \in {1, 2, 3, 4, 6, 7, 9, 10} : s[i] \in DOMAIN DigitValue
  /\ strptime_ymd(s).ok

\* the record's pubdate is absent, empty or not a valid YYYY-MM-DD date
NoValidDate(paper) == ~IsYMD(OrElse(paper.pubdate, <<>>))

\* the record's pubdate is absent or empty, or datetime.strptime rejects its
\* first ten characters
Unparsable(paper) ==
  LET full == OrElse(paper.pubdate, <<>>)
  IN ~strptime_ymd(SubSeq(full, 1, IF Len(full) < 10 THEN Len(full) ELSE 10)).ok

SameFlagAndScore(p, q) ==
  /\ has_priority_author(p) = has_priority_author(q)
  /\ calculate_relevance_score(p) = calculate_relevance_score(q)

\* the list ret holds the records of the list arg, each as often
SameRecords ==
  /\ Len(ret) = Len(arg)
  /\ \A p \in Range(arg) :
       Cardinality({i \in 1..Len(arg) : arg[i] = p})
         = Cardinality({i \in 1..Len(ret) : ret[i] = p})

\* C15 as stated: a record whose pubdate is absent, empty or not a valid
\* YYYY-MM-DD date gets the minimal date from _parse_pubdate, is still
\* returned by sort_papers, and stands after every record of the same
\* priority flag and score that has a valid date.
C15_UnparsableLast ==
  /\ fn = "_parse_pubdate" /\ NoValidDate(arg) => ret = datetime_min
  /\ fn = "sort_papers" =>
       /\ SameRecords
       /\ \A i, j \in 1..Len(ret) :
            /\ NoValidDate(ret[i])
            /\ ~NoValidDate(ret[j])
            /\ SameFlagAndScore(ret[i], ret[j])
            => j < i

\* C15 as the code has it: a record whose pubdate is absent or empty, or whose
\* first ten characters strptime does not read as %Y-%m-%d, gets the minimal
\* date from _parse_pubdate, is still returned by sort_papers, and stands
\* after every record of the same priority flag and score whose date is later
\* than the minimal date.
C15_UnparsableOldest ==
  /\ fn = "_parse_pubdate" /\ Unparsable(arg) => ret = datetime_min
  /\ fn = "sort_papers" =>
       /\ SameRecords
       /\ \A i, j \in 1..Len(ret) :
            /\ Unparsable(ret[i])
            /\ DateLess(datetime_min, _parse_pubdate(ret[j]))
            /\ SameFlagAndScore(ret[i], ret[j])
            => j < i

\* a record with day 00 listed before a dated record of the same score
C15_Witness ==
  /\ fn = "sort_papers"
  /\ Len(arg) = 2
  /\ arg[1].pubdate = Some(D_Day0)
  /\ arg[2].pubdate = Some(D_May1)
  /\ arg[1].title = arg[2].title
  /\ ret = <<arg[2], arg[1]>>

\* ---------------------------------------------------------------------------
\* arxiv_digest.py: the affiliation matcher
\* ---------------------------------------------------------------------------
\* An affiliation is a str, one element per character; the characters
\* U+2013 and U+2014 are the elements "EN DASH" and "EM DASH". None and the
\* empty str are both <<>>.

OTHER_UW_CAMPUSES ==
  <<<<"m","i","l","w","a","u","k","e","e">>,
    <<"g","r","e","e","n"," ","b","a","y">>,
    <<"l","a"," ","c","r","o","s","s","e">>,
    <<"e","a","u"," ","c","l","a","i","r","e">>,
    <<"o","s","h","k","o","s","h">>,
    <<"p","a","r","k","s","i","d","e">>,
    <<"p","l","a","t","t","e","v","i","l","l","e">>,
    <<"r","i","v","e","r"," ","f","a","l","l","s">>,
    <<"s","t","e","v","e","n","s"," ","p","o","i","n","t">>,
    <<"s","t","o","u","t">>,
    <<"s","u","p","e","r","i","o","r">>,
    <<"w","h","i","t","e","w","a","t","e","r">>>>

UWASH_HINTS ==
  <<<<"u","n","i","v","e","r","s","i","t","y"," ","o","f"," ","w","a","s","h","i","n","g","t","o","n">>,
    <<"u","w"," ","s","e","a","t","t","l","e">>,
    <<"s","e","a","t","t","l","e",","," ","w","a">>,
    <<"s","e","a","t","t","l","e"," ","w","a">>,
    <<"w","a","s","h","i","n","g","t","o","n",","," ","s","e","a","t","t","l","e">>,
    <<"d","e","p","t","."," ","o","f"," ","a","s","t","r","o","n","o","m","y",","," ","u","n","i","v","e","r","s","i","t","y"," ","o","f"," ","w","a","s","h","i","n","g","t","o","n">>>>

\* \w of a str pattern, on the characters of the model
WordChars == DOMAIN LowerMap \cup {LowerMap[c] : c \in DOMAIN LowerMap}
               \cup DOMAIN DigitValue \cup {"_"}

\* \s
RegexSpace == Whitespace \cup {"\f"}

\* the class [\s\-–—] without the two dashes above ASCII
Separators_ascii == RegexSpace \cup {"-"}

\* the class [\s\-–—]
Separators == RegexSpace \cup {"-", "EN DASH", "EM DASH"}

\* the class [\s,\-–—]
SeparatorsComma == Separators \cup {","}

\* the parts of a pattern: literal text, class*, (...)?, \b and .*
Lit(text) == [kind |-> "lit", text |-> text, class |-> {}, sub |-> <<>>]
Star(class) == [kind |-> "star", text |-> <<>>, class |-> class, sub |-> <<>>]
Opt(sub) == [kind |-> "opt", text |-> <<>>, class |-> {}, sub |-> sub]
WordBoundary == [kind |-> "b", text |-> <<>>, class |-> {}, sub |-> <<>>]
DotStar == [kind |-> "dotstar", text |-> <<>>, class |-> {}, sub |-> <<>>]

UW_MADISON_PATTERNS ==
  << <<WordBoundary, Lit(<<"u","w">>), Star(Separators),
       Lit(<<"m","a","d","i","s","o","n">>), WordBoundary>>,
     <<WordBoundary, Lit(<<"u","n","i","v","e","r","s","i","t","y"," ","o","f"," ","w","i","s","c","o","n","s","i","n">>),
       Star(SeparatorsComma), Lit(<<"m","a","d","i","s","o","n">>), WordBoundary>>,
     <<WordBoundary, Lit(<<"u","n","i","v">>), Opt(<<Lit(<<".">>)>>), Star(RegexSpace),
       Opt(<<Lit(<<"o","f">>), Star(RegexSpace)>>),
       Lit(<<"w","i","s","c","o","n","s","i","n">>), Star(SeparatorsComma),
       Lit(<<"m","a","d","i","s","o","n">>), WordBoundary>>,
     <<WordBoundary, Lit(<<"u">>), Opt(<<Lit(<<".">>)>>), Star(RegexSpace),
       Lit(<<"o","f">>), Star(RegexSpace), Lit(<<"w">>), Opt(<<Lit(<<".">>)>>),
       Star(SeparatorsComma), Lit(<<"m","a","d","i","s","o","n">>), WordBoundary>>,
     <<WordBoundary, Lit(<<"w","i","s","c","o","n","s","i","n">>), Star(SeparatorsComma),
       Lit(<<"m","a","d","i","s","o","n">>), WordBoundary>>,
     <<WordBoundary, Lit(<<"s","p","a","c","e"," ","s","c","i","e","n","c","e"," ","a","n","d"," ","e","n","g","i","n","e","e","r","i","n","g"," ","c","e","n","t","e","r">>),
       WordBoundary, DotStar, WordBoundary, Lit(<<"m","a","d","i","s","o","n">>), WordBoundary>>,
     <<WordBoundary, Lit(<<"s","s","e","c">>), WordBoundary, DotStar,
       WordBoundary, Lit(<<"m","a","d","i","s","o","n">>), WordBoundary>> >>

\* is the character at position i of t a word character (none outside t)
IsWordAt(t, i) == i \in 1..Len(t) /\ t[i] \in WordChars

\* from position p of t on, the characters up to position q are all in class
AllIn(t, p, q, class) == \A j \in (p + 1)..q : t[j] \in class

\* the positions of t the matcher can stand at after the parts k.. of the
\* pattern pat, having stood at one of the positions P (0 is the start of t)
RECURSIVE RunFrom(_, _, _, _)
Step(x, t, P) ==
  IF x.kind = "lit" THEN
    {p + Len(x.text) :
       p \in {q \in P : /\ q + Len(x.text) <= Len(t)
                        /\ \A j \in 1..Len(x.text) : t[q + j] = x.text[j]}}
  ELSE IF x.kind = "star" THEN
    {q \in 0..Len(t) : \E p \in P : p <= q /\ AllIn(t, p, q, x.class)}
  ELSE IF x.kind = "dotstar" THEN
    {q \in 0..Len(t) : \E p \in P : p <= q /\ \A j \in (p + 1)..q : t[j] # "\n"}
  ELSE IF x.kind = "opt" THEN
    P \cup RunFrom(x.sub, 1, t, P)
  ELSE
    {p \in P : IsWordAt(t, p) # IsWordAt(t, p + 1)}

RunFrom(pat, k, t, P) ==
  IF k > Len(pat) THEN P
  ELSE CHOOSE r \in {RunFrom(pat, k + 1, t, Q) : Q \in {Step(pat[k], t, P)}} : TRUE

\* UW_MADISON_REGEX.search(affiliation): the patterns joined by "|", compiled
\* with re.IGNORECASE
UW_MADISON_REGEX_search(affiliation) ==
  \E t \in {lower(affiliation)} :
    \E i \in 1..Len(UW_MADISON_PATTERNS) :
      RunFrom(UW_MADISON_PATTERNS[i], 1, t, 0..Len(t)) # {}

\* the two deny lists left out
is_uw_madison_affiliation_allow_only(affiliation) ==
  IF affiliation = <<>> THEN FALSE
  ELSE UW_MADISON_REGEX_search(affiliation)

is_uw_madison_affiliation(affiliation) ==
  IF affiliation = <<>> THEN FALSE
  ELSE \E aff_lower \in {lower(affiliation)} :
         IF \E i \in 1..Len(UWASH_HINTS) : Contains(UWASH_HINTS[i], aff_lower)
           THEN FALSE
         ELSE IF \E i \in 1..Len(OTHER_UW_CAMPUSES) :
                   Contains(OTHER_UW_CAMPUSES[i], aff_lower)
           THEN FALSE
         ELSE UW_MADISON_REGEX_search(affiliation)

MaxParts == 3

F_Wisconsin == <<"U","n","i","v","e","r","s","i","t","y"," ","o","f"," ","W","i","s","c","o","n","s","i","n">>
F_UW == <<"U","W">>
F_Madison == <<"M","a","d","i","s","o","n">>
F_Hyphen == <<"-">>
F_EnDash == <<"EN DASH">>
F_Comma == <<","," ">>
F_Milwaukee == <<"M","i","l","w","a","u","k","e","e">>
F_Washington == <<"U","n","i","v","e","r","s","i","t","y"," ","o","f"," ","W","a","s","h","i","n","g","t","o","n">>
F_Seattle == <<","," ","S","e","a","t","t","l","e",","," ","W","A">>
F_Dept == <<"D","e","p","t","."," ","o","f"," ","A","s","t","r","o","n","o","m","y",","," ">>

Fragments ==
  {F_Wisconsin, F_UW, F_Madison, F_Hyphen, F_EnDash, F_Comma, F_Milwaukee,
   F_Washington, F_Seattle, F_Dept}

Aff_DeptMadison == <<"D","e","p","t","."," ","o","f"," ","A","s","t","r","o","n","o","m","y",","," ","U","n","i","v","e","r","s","i","t","y"," ","o","f"," ","W","i","s","c","o","n","s","i","n","EN DASH","M","a","d","i","s","o","n">>
Aff_Milwaukee == <<"U","n","i","v","e","r","s","i","t","y"," ","o","f"," ","W","i","s","c","o","n","s","i","n","-","M","i","l","w","a","u","k","e","e">>
Aff_Washington == <<"D","e","p","a","r","t","m","e","n","t"," ","o","f"," ","A","s","t","r","o","n","o","m","y",","," ","U","n","i","v","e","r","s","i","t","y"," ","o","f"," ","W","a","s","h","i","n","g","t","o","n",","," ","S","e","a","t","t","l","e",","," ","W","A">>
Aff_SSEC == <<"S","S","E","C",","," ","1","2","2","5"," ","W","."," ","D","a","y","t","o","n"," ","S","t",".",","," ","M","a","d","i","s","o","n",","," ","W","I">>
Aff_UnivWisc == <<"U","n","i","v","."," ","o","f"," ","W","i","s","c","o","n","s","i","n"," ","EM DASH"," ","M","a","d","i","s","o","n">>
Aff_Joint == <<"U","n","i","v","e","r","s","i","t","y"," ","o","f"," ","W","i","s","c","o","n","s","i","n","-","M","a","d","i","s","o","n"," ","a","n","d"," ","U","n","i","v","e","r","s","i","t","y"," ","o","f"," ","W","i","s","c","o","n","s","i","n","-","M","i","l","w","a","u","k","e","e">>
Aff_UofW == <<"U","."," ","o","f"," ","W",".",","," ","M","a","d","i","s","o","n">>

\* "".join(parts)
RECURSIVE JoinParts(_)
JoinParts(parts) ==
  IF parts = <<>> THEN <<>> ELSE parts[1] \o JoinParts(Tail(parts))

\* the affiliations of a record of ADS: the fragments in any order, and some
\* whole strings
Affiliations ==
  {JoinParts(ws) : ws \in SeqUpTo(Fragments, MaxParts)}
  \cup {Aff_DeptMadison, Aff_Milwaukee, Aff_Washington, Aff_SSEC, Aff_UnivWisc,
          Aff_UofW, Aff_Joint}

InitAff ==
  /\ config = SourceConfig
  /\ fn = "input affiliation"
  /\ arg \in Affiliations
  /\ ret = None
  /\ RunIdle

CallIsUwMadison ==
  /\ fn = "input affiliation"
  /\ fn' = "is_uw_madison_affiliation"
  /\ ret' = is_uw_madison_affiliation(arg)
  /\ UNCHANGED <<globals, run, arg>>

NextAff == CallIsUwMadison

SpecAff == InitAff /\ [][NextAff]_vars

\* the affiliation contains, whatever the case of its letters, a hint of
\* UWASH_HINTS or a campus of OTHER_UW_CAMPUSES
OnDenyList(affiliation) ==
  \E t \in {lower(affiliation)} :
    \/ \E i \in 1..Len(UWASH_HINTS) : Contains(UWASH_HINTS[i], t)
    \/ \E i \in 1..Len(OTHER_UW_CAMPUSES) : Contains(OTHER_UW_CAMPUSES[i], t)

\* C16: an affiliation that contains, case-insensitively, a hint of the
\* namesake institution or the name of a sibling campus is never a match,
\* whatever else it contains.
C16_DenyFirst ==
  fn = "is_uw_madison_affiliation" /\ OnDenyList(arg) => ret = FALSE

\* an affiliation that names both Madison, as an allow pattern has it, and
\* Milwaukee
C16_Witness ==
  /\ fn = "is_uw_madison_affiliation"
  /\ arg = Aff_Joint
  /\ UW_MADISON_REGEX_search(arg)
  /\ OnDenyList(arg)
  /\ ret = FALSE

\* ways of writing the institution that the patterns are written for
NameVariants ==
  {Aff_DeptMadison, Aff_UnivWisc, Aff_UofW,
   JoinParts(<<F_UW, F_Hyphen, F_Madison>>),
   JoinParts(<<F_UW, F_EnDash, F_Madison>>),
   JoinParts(<<F_Wisconsin, F_Hyphen, F_Madison>>),
   JoinParts(<<F_Wisconsin, F_Comma, F_Madison>>)}

\* C17: the matcher accepts 'Dept. of Astronomy, University of
\* Wisconsin(en dash)Madison' and the other ways of writing the institution,
\* and rejects 'University of Wisconsin-Milwaukee', 'Department of Astronomy,
\* University of Washington, Seattle, WA' and an empty or absent affiliation.
C17_Scenarios ==
  fn = "is_uw_madison_affiliation" =>
    /\ arg \in NameVariants => ret = TRUE
    /\ arg = Aff_Milwaukee => ret = FALSE
    /\ arg = Aff_Washington => ret = FALSE
    /\ arg = <<>> => ret = FALSE

C17_Witness ==
  /\ fn = "is_uw_madison_affiliation"
  /\ arg = Aff_DeptMadison
  /\ ret = TRUE

\* ---------------------------------------------------------------------------
\* The queries of one run
\* ---------------------------------------------------------------------------

\* main has issued all its queries
AllIssued == pc \in {"email", "done"}

\* the queries issued so far whose keyword clause holds the part
QueriesWithPart(part) ==
  {i \in 1..Len(issued) : part \in Range(QueryOf(i).keyword_clause)}

\* the queries issued so far for the ORCID
QueriesWithOrcid(oid) == {i \in 1..Len(issued) : issued[i].orcid = Some(oid)}

\* C18 as stated: the queries of one run are batches that do not overlap and
\* cover the keywords and the identifiers exactly once: each keyword, and each
\* identifier, is in one query and no other.
C18_Partition ==
  AllIssued =>
    /\ \A part \in Range(build_keyword_clause) :
         Cardinality(QueriesWithPart(part)) = 1
    /\ \A oid \in Range(PRIORITY_ORCIDS) : Cardinality(QueriesWithOrcid(oid)) = 1

\* C18 as the code has it: the queries of one run are the topic query and
\* then one query for each priority ORCID, in the order of PRIORITY_ORCIDS,
\* each ORCID in one query and no other; every query carries the whole
\* keyword clause, whatever its size.
C18_OnePerOrcid ==
  /\ \A i \in 1..Len(issued) :
       issued[i].orcid = (IF i = 1 THEN None ELSE Some(PRIORITY_ORCIDS[i - 1]))
  /\ AllIssued =>
       /\ Len(issued) = 1 + Len(PRIORITY_ORCIDS)
       /\ \A oid \in Range(PRIORITY_ORCIDS) : Cardinality(QueriesWithOrcid(oid)) = 1
  /\ pc = "done" =>
       \E clause \in {build_keyword_clause} :
         \A i \in 1..Len(issued) : QueryOf(i).keyword_clause = clause

\* a run with the source's four ORCIDs and keywords: five queries
C18_Witness ==
  /\ AllIssued
  /\ config.orcids = "source"
  /\ config.topic = "source"
  /\ Len(issued) = 5
  /\ issued[3].orcid = Some(O_Soares)
  /\ Len(QueryOf(3).keyword_clause) = Len(TOPIC_KEYWORDS)

\* ---------------------------------------------------------------------------
\* arxiv_digest.py: the authors of the institution, and the final filter
\* ---------------------------------------------------------------------------

\* the entry of position i that zip_longest(..., fillvalue="") gives for a list
zip_longest_at(list, i) == IF i <= Len(list) THEN list[i] ELSE <<>>

\* zip_longest(authors, affs, fillvalue="")
zip_longest(authors, affs) ==
  [i \in 1..(IF Len(authors) < Len(affs) THEN Len(affs) ELSE Len(authors)) |->
     <<zip_longest_at(authors, i), zip_longest_at(affs, i)>>]

\* the test "author and" left out
uw_author_kept_unguarded(pair) ==
  pair[2] # <<>> /\ is_uw_madison_affiliation(pair[2])

\* if author and aff and is_uw_madison_affiliation(aff), for a pair of the zip
uw_author_kept(pair) ==
  pair[1] # <<>> /\ pair[2] # <<>> /\ is_uw_madison_affiliation(pair[2])

\* a for a in affs if a
NonEmptyAffs(affs) == {affs[i] : i \in {j \in 1..Len(affs) : affs[j] # <<>>}}

UW_SENTINEL ==
  <<"(","U","W","EN DASH","M","a","d","i","s","o","n"," ","a","f","f","i","l","i","a","t","i","o","n"," ","p","r","e","s","e","n","t",";"," ","p","e","r","-","a","u","t","h","o","r"," ","m","a","p","p","i","n","g"," ","u","n","a","v","a","i","l","a","b","l","e",")">>

\* the fallback on any affiliation left out
get_uw_authors_no_sentinel(paper) ==
  LET authors == OrElse(paper.author, <<>>)
      affs == OrElse(paper.aff, <<>>)
      kept == SelectSeq(zip_longest(authors, affs), uw_author_kept)
  IN [i \in 1..Len(kept) |-> kept[i][1]]

get_uw_authors(paper) ==
  LET authors == OrElse(paper.author, <<>>)
      affs == OrElse(paper.aff, <<>>)
      kept == SelectSeq(zip_longest(authors, affs), uw_author_kept)
      uw_authors == [i \in 1..Len(kept) |-> kept[i][1]]
  IN IF uw_authors = <<>>
        /\ \E a \in NonEmptyAffs(affs) : is_uw_madison_affiliation(a)
     THEN <<UW_SENTINEL>>
     ELSE uw_authors

\* if uw_authors: confirmed_papers.append(paper)
Confirmed(paper) == get_uw_authors(paper) # <<>>

\* query_ads of arxiv_digest.py on the reply of ADS: raise_for_status, the
\* docs, and the final filter
arxiv_digest_query_ads(reply) ==
  IF reply.status = "error"
  THEN [raised |-> Some("RequestException"), docs |-> <<>>]
  ELSE [raised |-> None,
        docs |-> SelectSeq(IF reply.docs = None THEN <<>> ELSE reply.docs[1], Confirmed)]

MaxEntries == 2

Aff_UWMadison == <<"U","W","-","M","a","d","i","s","o","n">>
Aff_Missing == <<"-">>

\* a record of ADS as get_uw_authors reads it
UwPaper(author, aff) == [author |-> author, aff |-> aff]

UwNames == {N_Doe, N_Vanderburg, <<>>}
UwAffs == {Aff_UWMadison, Aff_Milwaukee, Aff_Missing, <<>>}

UwPapers ==
  {UwPaper(au, af) :
     au \in {None} \cup {Some(l) : l \in SeqUpTo(UwNames, MaxEntries)},
     af \in {None} \cup {Some(l) : l \in SeqUpTo(UwAffs, MaxEntries)}}

\* the docs of a reply: an author of the institution, an affiliation of the
\* institution beyond the authors, another campus, and no affiliations
UwDocs ==
  {UwPaper(Some(<<N_Doe>>), Some(<<Aff_UWMadison>>)),
   UwPaper(Some(<<N_Doe>>), Some(<<Aff_Missing, Aff_UWMadison>>)),
   UwPaper(Some(<<N_Doe>>), Some(<<Aff_Milwaukee>>)),
   UwPaper(Some(<<N_Vanderburg>>), None)}

UwReplies ==
  {[status |-> "error", docs |-> None], [status |-> "ok", docs |-> None]}
  \cup {[status |-> "ok", docs |-> Some(d)] : d \in SeqUpTo(UwDocs, MaxEntries)}

InitUw ==
  /\ config = SourceConfig
  /\ \/ fn = "input uw" /\ arg \in UwPapers
     \/ fn = "input reply" /\ arg \in UwReplies
  /\ ret = None
  /\ RunIdle

CallGetUwAuthors ==
  /\ fn = "input uw"
  /\ fn' = "get_uw_authors"
  /\ ret' = get_uw_authors(arg)
  /\ UNCHANGED <<globals, run, arg>>

CallQueryAds ==
  /\ fn = "input reply"
  /\ fn' = "query_ads"
  /\ ret' = arxiv_digest_query_ads(arg)
  /\ UNCHANGED <<globals, run, arg>>

NextUw == CallGetUwAuthors \/ CallQueryAds

SpecUw == InitUw /\ [][NextUw]_vars

\* the authors a record names at the positions where its affiliation list
\* has an affiliation of the institution, in the order of the author list
RECURSIVE AlignedAuthors(_, _, _)
AlignedAuthors(authors, affs, i) ==
  IF i > Len(authors) \/ i > Len(affs) THEN <<>>
  ELSE (IF authors[i] # <<>> /\ is_uw_madison_affiliation(affs[i])
        THEN <<authors[i]>> ELSE <<>>)
       \o AlignedAuthors(authors, affs, i + 1)

\* some affiliation of the record that is not empty is one of the institution
AnyAffMatches(paper) ==
  \E a \in Range(OrElse(paper.aff, <<>>)) : a # <<>> /\ is_uw_madison_affiliation(a)

\* C20: whatever the lengths of the author and affiliation lists,
\* get_uw_authors returns the authors whose affiliation of the same position
\* is one of the institution, or the sentinel alone when there is no such
\* author but some affiliation is one of the institution; query_ads keeps a
\* paper exactly when one of its non-empty affiliations is one.
C20_AlignedOrSentinel ==
  /\ fn = "get_uw_authors" =>
       LET aligned == AlignedAuthors(OrElse(arg.author, <<>>), OrElse(arg.aff, <<>>), 1)
       IN /\ aligned # <<>> => ret = aligned
          /\ aligned = <<>> /\ AnyAffMatches(arg) => ret = <<UW_SENTINEL>>
          /\ aligned = <<>> /\ ~AnyAffMatches(arg) => ret = <<>>
  /\ fn = "query_ads" /\ arg.status = "ok" /\ arg.docs # None =>
       /\ ret.raised = None
       /\ \A p \in Range(arg.docs[1]) : p \in Range(ret.docs) <=> AnyAffMatches(p)
       /\ \A p \in Range(ret.docs) : p \in Range(arg.docs[1])

\* one author and two affiliations, the second one of the institution
C20_Witness ==
  /\ fn = "get_uw_authors"
  /\ arg.author # None /\ arg.aff # None
  /\ Len(arg.author[1]) = 1 /\ Len(arg.aff[1]) = 2
  /\ arg.author[1][1] # <<>>
  /\ ~is_uw_madison_affiliation(arg.aff[1][1])
  /\ is_uw_madison_affiliation(arg.aff[1][2])
  /\ ret = <<UW_SENTINEL>>

\* ---------------------------------------------------------------------------
\* Records with missing fields
\* ---------------------------------------------------------------------------
\* Every read of a field is paper.get(key, default) or default: a missing
\* key and a null value are both None here, and an empty value is Some(<<>>).

\* records whose fields are each missing, empty or present
MissingPapers ==
  {Paper(Some("b1"), t, ab, au, pub, None, other, d) :
     t \in {None, Some(<<>>), Some(<< <<>> >>), Some(<<T_Lithium>>)},
     ab \in {None, Some(<<>>), Some(A_Lithium)},
     au \in {None, Some(<<>>), Some(<<N_Vanderburg>>)},
     pub \in {None, Some(<<>>), Some(<<O_Vanderburg>>)},
     other \in {None, Some(<<>>)},
     d \in {None, Some(<<>>), Some(D_May2)}}

InitMissing ==
  /\ config = SourceConfig
  /\ \/ fn = "input" /\ arg \in MissingPapers
     \/ fn = "input uw" /\ arg \in UwPapers
  /\ ret = None
  /\ RunIdle

\* sort_papers on the record and a record that has every field
CallSortWith ==
  /\ fn = "input"
  /\ fn' = "sort_papers"
  /\ arg' = <<arg, P_b1>>
  /\ ret' = sort_papers(arg')
  /\ UNCHANGED <<globals, run>>

NextMissing ==
  \/ CallScore
  \/ CallHasPriorityAuthor
  \/ CallGetPriorityAuthors
  \/ CallGetUwAuthors
  \/ CallSortWith

SpecMissing == InitMissing /\ [][NextMissing]_vars

\* the field is absent, null or empty
Blank(field) == field = None \/ field[1] = <<>>

IdsBlank(p) == \A f \in 1..Len(OrcidFields) : Blank(p[OrcidFields[f]])

TextBlank(p) == TitleOf(p) = <<>> /\ AbstractOf(p) = <<>>

\* C19: on a record in which any of title, abstract, authors, affiliations,
\* identifier fields and publication date are absent, null or empty, the
\* five functions return, and what is absent counts for nothing: no points
\* from a blank title and abstract, no priority match without identifiers,
\* no priority author without authors, no author of the institution without
\* affiliations, and the record is still in the sorted list.
C19_MissingCountsNothing ==
  /\ fn = "calculate_relevance_score" =>
       /\ ret = ReferenceSum(arg)
       /\ TextBlank(arg) => ret = (IF IdsBlank(arg) THEN 0 ELSE 25)
       /\ IdsBlank(arg) /\ TitleOf(arg) = <<>> => ret \in {0, 3}
  /\ fn = "has_priority_author" => (IdsBlank(arg) => ret = FALSE)
  /\ fn = "get_priority_authors" =>
       /\ ~ret.raised
       /\ IdsBlank(arg) \/ Blank(arg.author) => ret.names = <<>>
  /\ fn = "get_uw_authors" =>
       /\ Blank(arg.aff) => ret = <<>>
       /\ Blank(arg.author) => ret \in {<<>>, <<UW_SENTINEL>>}
  /\ fn = "sort_papers" => SameRecords

\* no title, no authors, no date: the abstract and the identifier count
C19_Witness ==
  /\ fn = "calculate_relevance_score"
  /\ arg.title = None
  /\ arg.author = None
  /\ arg.pubdate = None
  /\ arg.abstract = Some(A_Lithium)
  /\ arg.orcid_pub = Some(<<O_Vanderburg>>)
  /\ ret = 28

\* ---------------------------------------------------------------------------
\* The priority bonus and the tiers
\* ---------------------------------------------------------------------------

\* no keyword of either list is in the title or the abstract of the record
NoKeywordMatch(p) ==
  \E title \in {lower(TitleOf(p))}, abstract \in {lower(AbstractOf(p))} :
    \A k \in Range(LowerAll(HIGH_VALUE_KEYWORDS)) \cup Range(LowerAll(TOPIC_KEYWORDS)) :
      ~Contains(k, title) /\ ~Contains(k, abstract)

\* C21: the priority bonus alone does not make a record a must-read: a record
\* with a priority author and no keyword in its title or abstract is not in
\* the MUST READ tier.
C21_BonusNotAutomatic ==
  fn = "get_relevance_tier" /\ IdMatch(arg) /\ NoKeywordMatch(arg) =>
    ret.tier # "MUST READ"

\* the tier of a record with a priority author and no keyword comes from its
\* score of 25 through the bands of every record
C21_BonusThroughBands ==
  fn = "get_relevance_tier" /\ IdMatch(arg) /\ NoKeywordMatch(arg) =>
    ret.score = 25 /\ InBand(ret.tier, ret.score)

\* ---------------------------------------------------------------------------
\* Records without an id
\* ---------------------------------------------------------------------------

\* the first position of a record with id b in the list s
FirstSeen(s, b) == CHOOSE i \in IdPositions(s, b) : \A j \in IdPositions(s, b) : i <= j

\* the record has a bibcode, and not the empty one
HasId(p) == p.bibcode # None /\ p.bibcode[1] # ""

\* C22: a record whose bibcode is absent or empty is in neither the merged
\* list nor the sorted digest made from it, whatever its authors and score;
\* every merged record has a non-empty bibcode, and the merged records stand
\* in the order in which their ids are first seen in the input.
C22_NoIdDropped ==
  /\ fn \in {"merge_unique_by_bibcode", "merge_sort"} =>
       /\ \A i \in 1..Len(ret) : HasId(ret[i])
       /\ \A p \in Range(arg) : ~HasId(p) => p \notin Range(ret)
  /\ fn = "merge_unique_by_bibcode" =>
       \A i, j \in 1..Len(ret) :
         i < j => FirstSeen(arg, ret[i].bibcode[1]) < FirstSeen(arg, ret[j].bibcode[1])

\* the record without a bibcode has a priority author and stands first in
\* the input; an id seen twice keeps its first place
C22_Witness ==
  /\ fn = "merge_unique_by_bibcode"
  /\ arg = <<P_nobib, P_b2, P_emptybib>>
  /\ has_priority_author(P_nobib)
  /\ ret = <<P_b2>>

====
